---- MODULE Spec2Model ----
(***************************************************************************)
(* Model of the @vibe/client request / authentication / response-          *)
(* normalisation layer (packages/client/src): resolveConfig, httpRequest,  *)
(* makeDirectRequest, makeProxyRequest, generateHmacSignature,             *)
(* parseResponse, VibeError, CollectionImpl and AdminClientImpl.           *)
(*                                                                         *)
(* JavaScript values are tagged records (field t names the type), so that  *)
(* truthiness, `in`, `??`, `||` and Array.isArray are computed as the      *)
(* language computes them.  Strings that the code parses (JSON texts) are  *)
(* TLA+ strings and JSON.parse is a table over the texts of the model.     *)
(***************************************************************************)
EXTENDS Integers, Sequences, FiniteSets, TLC

(***************************************************************************)
(* Bounds                                                                  *)
(***************************************************************************)
\* number of operations a caller invokes in one behaviour
MaxOps == 2

(***************************************************************************)
(* JavaScript values                                                       *)
(***************************************************************************)
JUndef == [t |-> "undefined"]
JNull == [t |-> "null"]
JNum(n) == [t |-> "num", n |-> n]
JStr(s) == [t |-> "str", s |-> s]
JArr(a) == [t |-> "arr", a |-> a]
JObj(o) == [t |-> "obj", o |-> o]
JBool(b) == [t |-> "bool", b |-> b]
\* NaN, the result of arithmetic on undefined
JNaN == [t |-> "nan"]

IsArray(v) == v.t = "arr"
IsObject(v) == v.t \in {"obj", "arr"}
\* typeof v === 'object' && v !== null, restricted to plain objects for `in`
Nullish(v) == v.t \in {"undefined", "null"}

\* ToBoolean
Truthy(v) ==
  CASE v.t \in {"undefined", "null", "nan"} -> FALSE
    [] v.t = "num" -> v.n # 0
    [] v.t = "str" -> v.s # ""
    [] v.t = "bool" -> v.b
    [] OTHER -> TRUE

\* 'k' in v, for a value v that passed typeof v === 'object'
HasKey(v, k) == v.t = "obj" /\ k \in DOMAIN v.o

\* v.k (property read of a non-nullish value; undefined when absent)
Prop(v, k) == IF HasKey(v, k) THEN v.o[k] ELSE JUndef

\* v?.k
OptProp(v, k) == IF Nullish(v) THEN JUndef ELSE Prop(v, k)

\* a ?? b
Coalesce(a, b) == IF Nullish(a) THEN b ELSE a

\* a || b
OrElse(a, b) == IF Truthy(a) THEN a ELSE b

\* v.length
JsLength(v) == IF IsArray(v) THEN JNum(Len(v.a)) ELSE JUndef

\* a + b on numbers; undefined operand gives NaN
JsAdd(a, b) == IF a.t = "num" /\ b.t = "num" THEN JNum(a.n + b.n) ELSE JNaN

\* a < b; any comparison with NaN or undefined is false
JsLess(a, b) == a.t = "num" /\ b.t = "num" /\ a.n < b.n

(***************************************************************************)
(* JSON texts of the model and JSON.parse                                  *)
(***************************************************************************)
Doc1 == JObj([id |-> JNum(1)])
Doc2 == JObj([id |-> JNum(2)])
Envelope7 == JObj([document_id |-> JNum(7), data |-> JStr("{\"name\":\"x\"}")])
EnvelopeBad == JObj([document_id |-> JNum(7), data |-> JStr("not-json")])
EnvelopeObj == JObj([document_id |-> JNum(7), data |-> JObj([name |-> JStr("x")])])

\* the texts JSON.parse accepts, with the value each denotes
JsonTable ==
  [ s \in { "null", "5", "[]", "{}",
            "[{\"id\":1},{\"id\":2}]",
            "{\"id\":1}",
            "{\"name\":\"x\"}",
            "{\"data\":{\"id\":1}}",
            "{\"data\":null}",
            "{\"data\":[{\"id\":1},{\"id\":2}],\"meta\":{\"total\":2}}",
            "{\"data\":[{\"id\":1}],\"meta\":{\"total\":5}}",
            "{\"data\":[{\"id\":1},null],\"meta\":{\"total\":2}}",
            "{\"data\":5}",
            "{\"items\":[{\"id\":1}],\"meta\":{\"totalCount\":3}}",
            "{\"documents\":[{\"document_id\":7,\"data\":\"{\\\"name\\\":\\\"x\\\"}\"}],\"totalCount\":4}",
            "{\"data\":{\"document_id\":7,\"data\":\"not-json\"}}",
            "{\"document_id\":7,\"data\":\"{\\\"name\\\":\\\"x\\\"}\"}",
            "{\"data\":[{\"id\":1}],\"meta\":{\"totalCount\":3}}",
            "{\"data\":{\"document_id\":7,\"data\":{\"name\":\"x\"}}}",
            "{\"message\":\"slow down\"}",
            "{\"error\":{\"message\":\"denied\"}}" } |->
    CASE s = "null" -> JNull
      [] s = "5" -> JNum(5)
      [] s = "[]" -> JArr(<<>>)
      [] s = "{}" -> JObj(<<>>)
      [] s = "[{\"id\":1},{\"id\":2}]" -> JArr(<<Doc1, Doc2>>)
      [] s = "{\"id\":1}" -> Doc1
      [] s = "{\"name\":\"x\"}" -> JObj([name |-> JStr("x")])
      [] s = "{\"data\":{\"id\":1}}" -> JObj([data |-> Doc1])
      [] s = "{\"data\":null}" -> JObj([data |-> JNull])
      [] s = "{\"data\":[{\"id\":1},{\"id\":2}],\"meta\":{\"total\":2}}" ->
           JObj([data |-> JArr(<<Doc1, Doc2>>), meta |-> JObj([total |-> JNum(2)])])
      [] s = "{\"data\":[{\"id\":1}],\"meta\":{\"total\":5}}" ->
           JObj([data |-> JArr(<<Doc1>>), meta |-> JObj([total |-> JNum(5)])])
      [] s = "{\"data\":[{\"id\":1},null],\"meta\":{\"total\":2}}" ->
           JObj([data |-> JArr(<<Doc1, JNull>>), meta |-> JObj([total |-> JNum(2)])])
      [] s = "{\"data\":5}" -> JObj([data |-> JNum(5)])
      [] s = "{\"items\":[{\"id\":1}],\"meta\":{\"totalCount\":3}}" ->
           JObj([items |-> JArr(<<Doc1>>), meta |-> JObj([totalCount |-> JNum(3)])])
      [] s = "{\"documents\":[{\"document_id\":7,\"data\":\"{\\\"name\\\":\\\"x\\\"}\"}],\"totalCount\":4}" ->
           JObj([documents |-> JArr(<<Envelope7>>), totalCount |-> JNum(4)])
      [] s = "{\"data\":{\"document_id\":7,\"data\":\"not-json\"}}" ->
           JObj([data |-> EnvelopeBad])
      [] s = "{\"document_id\":7,\"data\":\"{\\\"name\\\":\\\"x\\\"}\"}" -> Envelope7
      [] s = "{\"data\":[{\"id\":1}],\"meta\":{\"totalCount\":3}}" ->
           JObj([data |-> JArr(<<Doc1>>), meta |-> JObj([totalCount |-> JNum(3)])])
      [] s = "{\"data\":{\"document_id\":7,\"data\":{\"name\":\"x\"}}}" ->
           JObj([data |-> EnvelopeObj])
      [] s = "{\"message\":\"slow down\"}" -> JObj([message |-> JStr("slow down")])
      [] s = "{\"error\":{\"message\":\"denied\"}}" ->
           JObj([error |-> JObj([message |-> JStr("denied")])]) ]

\* texts that are not JSON (JSON.parse throws SyntaxError)
InvalidTexts == {"not-json", "<html>"}

\* every text a response body or a string field can hold
Texts == DOMAIN JsonTable \cup InvalidTexts \cup {""}

JsonParses(s) == s \in DOMAIN JsonTable
JsonParse(s) == JsonTable[s]

\* JSON.stringify(v): the wire text of a value, kept symbolic
JsonStringify(v) == [t |-> "json", of |-> v]

\* String(v) / `${v}`
JsToString(v) ==
  CASE v.t = "str" -> v.s
    [] v.t = "num" -> ToString(v.n)
    [] v.t = "null" -> "null"
    [] v.t = "undefined" -> "undefined"
    [] v.t = "nan" -> "NaN"
    [] v.t = "arr" -> "<array>"
    [] OTHER -> "[object Object]"

(***************************************************************************)
(* Exceptions and VibeError (error.ts)                                     *)
(***************************************************************************)
\* the closed taxonomy of types.ts
VibeErrorCode ==
  { "NETWORK_ERROR", "UNAUTHORIZED", "FORBIDDEN", "NOT_FOUND", "VALIDATION_ERROR",
    "CONFLICT", "RATE_LIMITED", "SERVER_ERROR", "UNKNOWN_ERROR" }

\* a thrown value: cls is "VibeError", "Error" (any other Error subclass) or
\* "value" (a thrown non-Error); oid is the identity of a VibeError object
Exception(cls, name, code, message, status, original, oid) ==
  [ cls |-> cls, name |-> name, code |-> code, message |-> message,
    status |-> status, original |-> original, oid |-> oid ]

NoError == Exception("none", "", "", "", JUndef, "", 0)

\* an Error that is not a VibeError
PlainError(name, message) == Exception("Error", name, "", message, JUndef, "", 0)

\* a thrown value that is not an Error at all
ThrownValue(text) == Exception("value", "", "", text, JUndef, "", 0)

\* new VibeError({code, message, status, details}); oid is the fresh object
NewVibeError(oid, code, message, status, original) ==
  Exception("VibeError", "VibeError", code, message, status, original, oid)

\* error instanceof VibeError
IsVibeError(e) == e.cls = "VibeError"

\* error instanceof Error
IsError(e) == e.cls \in {"VibeError", "Error"}

\* error.message.includes('fetch')
MessageIncludesFetch(m) == m \in {"fetch failed", "Failed to fetch"}

\* what fetch rejects with when the signal is aborted
AbortError == PlainError("AbortError", "This operation was aborted")

\* what fetch rejects with on a transport failure
TransportErrors ==
  { PlainError("TypeError", "fetch failed"),
    PlainError("TypeError", "Failed to fetch"),
    PlainError("TypeError", "Load failed"),
    PlainError("Error", "socket hang up") }

\* what a failing access-token supplier throws
SupplierErrors ==
  { PlainError("Error", "session expired"), ThrownValue("no session") }

\* reading a property of null or calling a non-function
JsTypeError(message) == PlainError("TypeError", message)

\* statusToCode with the 5xx test written as `status > 500`
statusToCode_strict500(status) ==
  CASE status = 401 -> "UNAUTHORIZED"
    [] status = 403 -> "FORBIDDEN"
    [] status = 404 -> "NOT_FOUND"
    [] status = 409 -> "CONFLICT"
    [] status = 422 -> "VALIDATION_ERROR"
    [] status = 429 -> "RATE_LIMITED"
    [] OTHER -> IF status > 500 THEN "SERVER_ERROR" ELSE "UNKNOWN_ERROR"

statusToCode(status) ==
  CASE status = 401 -> "UNAUTHORIZED"
    [] status = 403 -> "FORBIDDEN"
    [] status = 404 -> "NOT_FOUND"
    [] status = 409 -> "CONFLICT"
    [] status = 422 -> "VALIDATION_ERROR"
    [] status = 429 -> "RATE_LIMITED"
    [] OTHER -> IF status >= 500 THEN "SERVER_ERROR" ELSE "UNKNOWN_ERROR"

\* response.statusText as servers send it
StatusText(status) ==
  CASE status = 400 -> "Bad Request"
    [] status = 401 -> "Unauthorized"
    [] status = 403 -> "Forbidden"
    [] status = 404 -> "Not Found"
    [] status = 409 -> "Conflict"
    [] status = 422 -> "Unprocessable Entity"
    [] status = 429 -> "Too Many Requests"
    [] status = 500 -> "Internal Server Error"
    [] status = 503 -> "Service Unavailable"
    [] OTHER -> ""

\* VibeError.fromResponse: readOk is whether response.json() delivered the
\* text; a rejected read, invalid JSON and a property read of null are all
\* swallowed by the catch and leave the default message
fromResponse(oid, status, readOk, text) ==
  LET default == "HTTP " \o ToString(status) \o ": " \o StatusText(status)
      parsed == readOk /\ JsonParses(text)
      body == IF parsed THEN JsonParse(text) ELSE JUndef
      errMsg == OptProp(Prop(body, "error"), "message")
      message ==
        IF ~parsed \/ Nullish(body) THEN default
        ELSE IF Truthy(errMsg) THEN JsToString(errMsg)
        ELSE IF Truthy(Prop(body, "message")) THEN JsToString(Prop(body, "message"))
        ELSE default
  IN NewVibeError(oid, statusToCode(status), message, JNum(status), "")

\* fromError without the AbortError branch
fromError_noAbort(oid, error) ==
  IF IsVibeError(error) THEN error
  ELSE IF IsError(error) THEN
    IF error.name = "TypeError" /\ MessageIncludesFetch(error.message) THEN
      NewVibeError(oid, "NETWORK_ERROR",
                   "Network request failed. Please check your connection.",
                   JUndef, error.message)
    ELSE
      NewVibeError(oid, "UNKNOWN_ERROR", error.message, JUndef, error.message)
  ELSE
    NewVibeError(oid, "UNKNOWN_ERROR", "An unknown error occurred", JUndef, error.message)

\* VibeError.fromError; oid is the object a `new VibeError` would create
fromError(oid, error) ==
  IF IsVibeError(error) THEN error
  ELSE IF IsError(error) THEN
    IF error.name = "TypeError" /\ MessageIncludesFetch(error.message) THEN
      NewVibeError(oid, "NETWORK_ERROR",
                   "Network request failed. Please check your connection.",
                   JUndef, error.message)
    ELSE IF error.name = "AbortError" THEN
      NewVibeError(oid, "NETWORK_ERROR", "Request timed out", JUndef, error.message)
    ELSE
      NewVibeError(oid, "UNKNOWN_ERROR", error.message, JUndef, error.message)
  ELSE
    NewVibeError(oid, "UNKNOWN_ERROR", "An unknown error occurred", JUndef, error.message)

\* isRetryable that forgets RATE_LIMITED
isRetryable_noRateLimit(e) ==
  \/ e.code = "NETWORK_ERROR"
  \/ e.code = "SERVER_ERROR"

isRetryable(e) ==
  \/ e.code = "NETWORK_ERROR"
  \/ e.code = "RATE_LIMITED"
  \/ e.code = "SERVER_ERROR"

(***************************************************************************)
(* Configuration (client.ts)                                               *)
(***************************************************************************)
DefaultTimeout == 30000

\* config?.k of the optional explicit configuration; '' stands for undefined,
\* which `||` treats the same way
Explicit(c, k) == IF k \in DOMAIN c THEN c[k] ELSE ""

\* getEnv(key)
getEnv(env, key) == IF key \in DOMAIN env THEN env[key] ELSE ""

\* a || b on strings
StrOr(a, b) == IF a # "" THEN a ELSE b

\* s.replace(/\/$/, '') on the URLs of the model
StripTrailingSlash(s) ==
  CASE s = "https://idp.test/" -> "https://idp.test"
    [] s = "https://api.test/" -> "https://api.test"
    [] s = "/" -> ""
    [] OTHER -> s

\* a resolveConfig that derives useProxy before the trailing slash is removed
resolveConfig_proxyBeforeStrip(c, env) ==
  LET rawIdpUrl == StrOr(Explicit(c, "idpUrl"),
                     StrOr(getEnv(env, "IDP_URL"),
                       StrOr(getEnv(env, "NEXT_PUBLIC_IDP_URL"), "")))
      idpUrl == StripTrailingSlash(rawIdpUrl)
      clientId == StrOr(Explicit(c, "clientId"), StrOr(getEnv(env, "VIBE_CLIENT_ID"), ""))
      signingKey == StrOr(Explicit(c, "signingKey"), StrOr(getEnv(env, "VIBE_HMAC_KEY"), ""))
      defaultCollection ==
        StrOr(Explicit(c, "defaultCollection"), StrOr(getEnv(env, "VIBE_COLLECTION"), "vibe_app"))
      apiUrl == StripTrailingSlash(
                  StrOr(Explicit(c, "apiUrl"),
                    StrOr(getEnv(env, "VIBE_API_URL"),
                      StrOr(getEnv(env, "NEXT_PUBLIC_VIBE_API_URL"), ""))))
      useProxy == rawIdpUrl # ""
  IN [ apiUrl |-> apiUrl,
       idpUrl |-> idpUrl,
       clientId |-> clientId,
       signingKey |-> signingKey,
       defaultCollection |-> defaultCollection,
       getAccessToken |-> StrOr(Explicit(c, "getAccessToken"), "default"),
       debug |-> IF "debug" \in DOMAIN c THEN c.debug ELSE FALSE,
       timeout |-> IF "timeout" \in DOMAIN c THEN c.timeout ELSE DefaultTimeout,
       useProxy |-> useProxy ]

\* resolveConfig of client.ts under process.env = env
resolveConfig(c, env) ==
  LET idpUrl == StripTrailingSlash(
                  StrOr(Explicit(c, "idpUrl"),
                    StrOr(getEnv(env, "IDP_URL"),
                      StrOr(getEnv(env, "NEXT_PUBLIC_IDP_URL"), ""))))
      clientId == StrOr(Explicit(c, "clientId"), StrOr(getEnv(env, "VIBE_CLIENT_ID"), ""))
      signingKey == StrOr(Explicit(c, "signingKey"), StrOr(getEnv(env, "VIBE_HMAC_KEY"), ""))
      defaultCollection ==
        StrOr(Explicit(c, "defaultCollection"), StrOr(getEnv(env, "VIBE_COLLECTION"), "vibe_app"))
      apiUrl == StripTrailingSlash(
                  StrOr(Explicit(c, "apiUrl"),
                    StrOr(getEnv(env, "VIBE_API_URL"),
                      StrOr(getEnv(env, "NEXT_PUBLIC_VIBE_API_URL"), ""))))
      useProxy == idpUrl # ""
  IN [ apiUrl |-> apiUrl,
       idpUrl |-> idpUrl,
       clientId |-> clientId,
       signingKey |-> signingKey,
       defaultCollection |-> defaultCollection,
       getAccessToken |-> StrOr(Explicit(c, "getAccessToken"), "default"),
       debug |-> IF "debug" \in DOMAIN c THEN c.debug ELSE FALSE,
       timeout |-> IF "timeout" \in DOMAIN c THEN c.timeout ELSE DefaultTimeout,
       useProxy |-> useProxy ]

\* explicit configurations passed to createVibeClient
ClientConfigs ==
  { <<>>,
    [apiUrl |-> "https://api.test/", getAccessToken |-> "custom"],
    [idpUrl |-> "https://idp.test/", clientId |-> "app1", signingKey |-> "a2V5",
     apiUrl |-> "https://api.test", getAccessToken |-> "custom"],
    [idpUrl |-> "https://idp.test", clientId |-> "app1"] }

\* environments (process.env)
Environments ==
  { <<>>, [VIBE_API_URL |-> "https://api.test", VIBE_CLIENT_ID |-> "envapp"] }

(***************************************************************************)
(* Response unwrapping (collection.ts)                                     *)
(***************************************************************************)
\* own enumerable properties copied by {...v}
Spread(v) ==
  CASE v.t = "obj" -> v.o
    [] v.t = "arr" ->
         [ k \in { ToString(i - 1) : i \in 1..Len(v.a) } |->
             v.a[CHOOSE i \in 1..Len(v.a) : ToString(i - 1) = k] ]
    [] OTHER -> <<>>

\* an unwrapDocument that hands the envelope back when its data does not parse
unwrapDocument_keepsEnvelope(doc) ==
  IF ~Truthy(doc) THEN JNull
  ELSE IF HasKey(doc, "document_id") /\ HasKey(doc, "data") THEN
    LET data == doc.o.data
        parsedData ==
          IF data.t = "str" THEN
            IF JsonParses(data.s) THEN JsonParse(data.s) ELSE JObj(<<>>)
          ELSE IF IsObject(data) THEN data
          ELSE JObj(<<>>)
    IN IF data.t = "str" /\ ~JsonParses(data.s) THEN doc
       ELSE JObj(Spread(parsedData) @@ [id |-> doc.o.document_id])
  ELSE doc

\* CollectionImpl.unwrapDocument
unwrapDocument(doc) ==
  IF ~Truthy(doc) THEN JNull
  ELSE IF HasKey(doc, "document_id") /\ HasKey(doc, "data") THEN
    LET data == doc.o.data
        parsedData ==
          IF data.t = "str" THEN
            IF JsonParses(data.s) THEN JsonParse(data.s) ELSE JObj(<<>>)
          ELSE IF IsObject(data) THEN data
          ELSE JObj(<<>>)
    IN JObj(Spread(parsedData) @@ [id |-> doc.o.document_id])
  ELSE doc

\* docs.map(unwrapDocument).filter(d => d !== null), for an array docs
unwrapDocuments(docs) ==
  LET mapped == [ i \in 1..Len(docs) |-> unwrapDocument(docs[i]) ]
      NotNull(d) == d.t # "null"
  IN SelectSeq(mapped, NotNull)

(***************************************************************************)
(* Outcomes of an asynchronous operation                                   *)
(***************************************************************************)
Pending == [kind |-> "pending", value |-> JUndef, error |-> NoError]
Resolved(v) == [kind |-> "value", value |-> v, error |-> NoError]
Rejected(e) == [kind |-> "error", value |-> JUndef, error |-> e]

\* a parseResponse whose catch block returns the empty object
parseResponse_swallowsFailure(oid, status, readOk, text) ==
  IF status = 204 THEN Resolved(JObj(<<>>))
  ELSE IF readOk /\ text = "" THEN Resolved(JObj(<<>>))
  ELSE IF readOk /\ JsonParses(text) THEN Resolved(JsonParse(text))
  ELSE Resolved(JObj(<<>>))

\* parseResponse of http.ts; readOk is whether response.text() delivered
parseResponse(oid, status, readOk, text) ==
  IF status = 204 THEN Resolved(JObj(<<>>))
  ELSE IF readOk /\ text = "" THEN Resolved(JObj(<<>>))
  ELSE IF readOk /\ JsonParses(text) THEN Resolved(JsonParse(text))
  ELSE Rejected(NewVibeError(oid, "SERVER_ERROR", "Invalid JSON response from server",
                             JNum(status), ""))

\* AdminClientImpl.parseResponse
adminParseResponse(oid, status, readOk, text) ==
  IF readOk /\ text = "" THEN Resolved(JObj(<<>>))
  ELSE IF readOk /\ JsonParses(text) THEN Resolved(JsonParse(text))
  ELSE Rejected(NewVibeError(oid, "SERVER_ERROR", "Invalid JSON response from server",
                             JNum(status), ""))

\* the {data, pagination} literal with hasMore computed by <=
ListResult_lessEq(data, total, limit, offset) ==
  JObj([ data |-> data,
         pagination |->
           JObj([ total |-> total,
                  limit |-> JNum(limit),
                  offset |-> JNum(offset),
                  hasMore |-> JBool(~JsLess(total, JsAdd(JNum(offset), JsLength(data)))) ]) ])

\* the {data, pagination} literal that list, listViaQuery and the admin lists build
ListResult(data, total, limit, offset) ==
  JObj([ data |-> data,
         pagination |->
           JObj([ total |-> total,
                  limit |-> JNum(limit),
                  offset |-> JNum(offset),
                  hasMore |-> JBool(JsLess(JsAdd(JNum(offset), JsLength(data)), total)) ]) ])

\* destructuring defaults of list / listViaQuery
LimitOf(options) == IF "limit" \in DOMAIN options THEN options.limit ELSE 20
OffsetOf(options) == IF "offset" \in DOMAIN options THEN options.offset ELSE 0

\* CollectionImpl.list after parseResponse, direct mode
listResult(body, options) ==
  IF Nullish(body) THEN
    Rejected(JsTypeError("Cannot read properties of null (reading 'data')"))
  ELSE
    LET data == IF IsArray(body) THEN body ELSE OrElse(Prop(body, "data"), JArr(<<>>))
        total == Coalesce(OptProp(Prop(body, "meta"), "total"), JsLength(data))
    IN Resolved(ListResult(data, total, LimitOf(options), OffsetOf(options)))

\* CollectionImpl.listViaQuery after parseResponse, proxy mode
listViaQueryResult(body, options) ==
  IF Nullish(body) THEN
    Rejected(JsTypeError("Cannot read properties of null (reading 'data')"))
  ELSE
    LET raw == OrElse(OrElse(OrElse(Prop(body, "data"), Prop(body, "items")),
                             Prop(body, "documents")), JArr(<<>>))
    IN IF ~IsArray(raw) THEN Rejected(JsTypeError("docs.map is not a function"))
       ELSE
         LET data == JArr(unwrapDocuments(raw.a))
             meta == Prop(body, "meta")
             total == Coalesce(Coalesce(Coalesce(OptProp(meta, "total"),
                                                 OptProp(meta, "totalCount")),
                                        Prop(body, "totalCount")),
                               JsLength(data))
         IN Resolved(ListResult(data, total, LimitOf(options), OffsetOf(options)))

\* get after parseResponse: the envelope branch and the plain branch
getResult(body) ==
  IF Truthy(body) /\ HasKey(body, "data")
  THEN Resolved(Coalesce(unwrapDocument(body.o.data), JNull))
  ELSE Resolved(unwrapDocument(body))

\* create / update after parseResponse
writeResult(body) ==
  IF Truthy(body) /\ HasKey(body, "data")
  THEN Resolved(unwrapDocument(body.o.data))
  ELSE Resolved(unwrapDocument(body))

\* a catch block of get that turns every VibeError into null
getCatch_anyVibeError(outcome) ==
  IF outcome.kind = "error" /\ IsVibeError(outcome.error)
  THEN Resolved(JNull)
  ELSE outcome

\* the catch block of get
getCatch(outcome) ==
  IF outcome.kind = "error" /\ IsVibeError(outcome.error) /\ outcome.error.code = "NOT_FOUND"
  THEN Resolved(JNull)
  ELSE outcome

(***************************************************************************)
(* Request construction (http.ts, collection.ts, admin.ts)                 *)
(***************************************************************************)
\* convertFiltersToVibeFormat: filter is the sequence of Object.entries
RECURSIVE convertFiltersToVibeFormat(_)
convertFiltersToVibeFormat(filter) ==
  IF filter = <<>> THEN <<>>
  ELSE
    LET key == Head(filter).key
        value == Head(filter).value
        rest == convertFiltersToVibeFormat(Tail(filter))
    IN IF Nullish(value) THEN rest
       ELSE IF HasKey(value, "operator") /\ HasKey(value, "value") THEN
         << JObj([field |-> JStr(key), operator |-> value.o.operator,
                  value |-> value.o.value]) >> \o rest
       ELSE
         << JObj([field |-> JStr(key), operator |-> JStr("eq"), value |-> value]) >> \o rest

\* the filter[key]=String(value) parameters of list, as URLSearchParams prints them
RECURSIVE FilterParams(_)
FilterParams(filter) ==
  IF filter = <<>> THEN ""
  ELSE
    LET key == Head(filter).key
        value == Head(filter).value
    IN (IF Nullish(value) THEN ""
        ELSE "&filter%5B" \o key \o "%5D=" \o JsToString(value))
       \o FilterParams(Tail(filter))

\* params.toString() of list in direct mode
ListParams(options) ==
  "limit=" \o ToString(LimitOf(options)) \o "&offset=" \o ToString(OffsetOf(options))
  \o (IF "orderBy" \in DOMAIN options /\ options.orderBy # ""
      THEN "&orderBy=" \o options.orderBy \o "&orderDir="
           \o (IF "orderDir" \in DOMAIN options /\ options.orderDir # ""
               THEN options.orderDir ELSE "asc")
      ELSE "")
  \o (IF "filter" \in DOMAIN options THEN FilterParams(options.filter) ELSE "")

\* a queryBody whose page counts from zero
QueryBody_zeroBasedPage(options) ==
  JObj( [ page |-> JNum(OffsetOf(options) \div LimitOf(options)),
          pageSize |-> JNum(LimitOf(options)) ]
        @@ (IF "orderBy" \in DOMAIN options /\ options.orderBy # ""
            THEN [ orderBy |-> JStr(options.orderBy),
                   orderDir |-> JStr(IF "orderDir" \in DOMAIN options /\ options.orderDir # ""
                                     THEN options.orderDir ELSE "asc") ]
            ELSE <<>>)
        @@ (IF "filter" \in DOMAIN options /\ Len(options.filter) > 0
            THEN [ filter |-> JArr(convertFiltersToVibeFormat(options.filter)) ]
            ELSE <<>>) )

\* queryBody of listViaQuery
QueryBody(options) ==
  JObj( [ page |-> JNum((OffsetOf(options) \div LimitOf(options)) + 1),
          pageSize |-> JNum(LimitOf(options)) ]
        @@ (IF "orderBy" \in DOMAIN options /\ options.orderBy # ""
            THEN [ orderBy |-> JStr(options.orderBy),
                   orderDir |-> JStr(IF "orderDir" \in DOMAIN options /\ options.orderDir # ""
                                     THEN options.orderDir ELSE "asc") ]
            ELSE <<>>)
        @@ (IF "filter" \in DOMAIN options /\ Len(options.filter) > 0
            THEN [ filter |-> JArr(convertFiltersToVibeFormat(options.filter)) ]
            ELSE <<>>) )

\* the endpoint of get / update / delete
PointEndpoint(cfg, name, id) ==
  IF cfg.useProxy
  THEN "/v1/collections/" \o cfg.defaultCollection \o "/tables/" \o name \o "/" \o ToString(id)
  ELSE "/v1/" \o name \o "/" \o ToString(id)

\* the arguments with which a Collection operation calls httpRequest
CollectionRequest(cfg, c) ==
  CASE c.op = "list" /\ ~cfg.useProxy ->
         [ endpoint |-> "/v1/" \o c.name \o "?" \o ListParams(c.options),
           method |-> "GET", body |-> JUndef ]
    [] c.op = "list" /\ cfg.useProxy ->
         [ endpoint |-> "/v1/collections/" \o cfg.defaultCollection \o "/tables/"
                        \o c.name \o "/query",
           method |-> "POST", body |-> QueryBody(c.options) ]
    [] c.op = "get" ->
         [ endpoint |-> PointEndpoint(cfg, c.name, c.id), method |-> "GET", body |-> JUndef ]
    [] c.op = "create" ->
         [ endpoint |-> IF cfg.useProxy
                        THEN "/v1/collections/" \o cfg.defaultCollection \o "/tables/" \o c.name
                        ELSE "/v1/" \o c.name,
           method |-> "POST", body |-> c.data ]
    [] c.op = "update" ->
         [ endpoint |-> PointEndpoint(cfg, c.name, c.id), method |-> "PATCH", body |-> c.data ]
    [] c.op = "delete" ->
         [ endpoint |-> PointEndpoint(cfg, c.name, c.id), method |-> "DELETE", body |-> JUndef ]

\* the endpoint, method and data of an administrative operation
AdminRequest(c) ==
  CASE c.op = "roles.list" ->
         [ endpoint |-> "/v1/admin/roles?limit=50&offset=0", method |-> "GET", body |-> JUndef ]
    [] c.op = "roles.get" ->
         [ endpoint |-> "/v1/admin/roles/" \o ToString(c.id), method |-> "GET", body |-> JUndef ]
    [] c.op = "roles.create" ->
         [ endpoint |-> "/v1/admin/roles", method |-> "POST", body |-> c.data ]
    [] c.op = "roles.update" ->
         [ endpoint |-> "/v1/admin/roles/" \o ToString(c.id), method |-> "PATCH", body |-> c.data ]
    [] c.op = "roles.delete" ->
         [ endpoint |-> "/v1/admin/roles/" \o ToString(c.id), method |-> "DELETE", body |-> JUndef ]
    [] c.op = "users.list" ->
         [ endpoint |-> "/v1/admin/users?limit=50&offset=0", method |-> "GET", body |-> JUndef ]
    [] c.op = "users.get" ->
         [ endpoint |-> "/v1/admin/users/" \o ToString(c.id), method |-> "GET", body |-> JUndef ]
    [] c.op = "users.getRoles" ->
         [ endpoint |-> "/v1/admin/users/" \o ToString(c.id) \o "/roles",
           method |-> "GET", body |-> JUndef ]
    [] c.op = "tenant.getConfig" ->
         [ endpoint |-> "/v1/admin/tenant", method |-> "GET", body |-> JUndef ]

\* the headers object httpRequest and the admin fetch wrapper start from
\* with a token that is set even when the supplier returned none
BaseHeaders_bearerAlways(token) ==
  ("Authorization" :> "Bearer " \o JsToString(token)) @@ ("Content-Type" :> "application/json")

\* token is the JS value the supplier returned; `if (token)` is its truthiness
BaseHeaders(token) ==
  IF Truthy(token)
  THEN ("Authorization" :> "Bearer " \o token.s) @@ ("Content-Type" :> "application/json")
  ELSE ("Content-Type" :> "application/json")

\* the headers object of a call made with skipAuth
SkipAuthHeaders == ("Content-Type" :> "application/json")

\* stringToSign of generateHmacSignature
stringToSign(timestamp, method, endpoint) ==
  ToString(timestamp) \o "|" \o method \o "|" \o endpoint

\* HMAC-SHA256 of the message under the key, base64; kept symbolic and injective
generateHmacSignature(signingKey, timestamp, method, endpoint) ==
  "hmac-sha256(" \o signingKey \o ";" \o stringToSign(timestamp, method, endpoint) \o ")"

\* the argument of fetch in makeDirectRequest
makeDirectRequest(cfg, endpoint, method, body, headers) ==
  [ url |-> cfg.apiUrl \o endpoint,
    method |-> method,
    headers |-> headers,
    body |-> IF Truthy(body) THEN JsonStringify(body) ELSE JUndef ]

\* headers after makeProxyRequest added the client id
ProxyClientHeaders(cfg, headers) == ("X-Vibe-Client-Id" :> cfg.clientId) @@ headers

\* makeProxyRequest signing the transport method POST instead of the logical one
ProxySignedHeaders_signsPost(cfg, endpoint, method, headers, timestamp) ==
  ("X-Vibe-Signature" :> generateHmacSignature(cfg.signingKey, timestamp, "POST", endpoint))
  @@ ("X-Vibe-Timestamp" :> ToString(timestamp))
  @@ headers

\* headers after makeProxyRequest added timestamp and signature
ProxySignedHeaders(cfg, endpoint, method, headers, timestamp) ==
  ("X-Vibe-Signature" :> generateHmacSignature(cfg.signingKey, timestamp, method, endpoint))
  @@ ("X-Vibe-Timestamp" :> ToString(timestamp))
  @@ headers

\* makeProxyRequest passing the logical method on to fetch
makeProxyRequest_logicalMethod(cfg, endpoint, method, body, headers) ==
  [ url |-> cfg.idpUrl \o "/api/vibe/proxy",
    method |-> method,
    headers |-> headers,
    body |-> JsonStringify(JObj([ endpoint |-> JStr(endpoint),
                                  method |-> JStr(method),
                                  data |-> Coalesce(body, JNull) ])) ]

\* the argument of fetch in makeProxyRequest
makeProxyRequest(cfg, endpoint, method, body, headers) ==
  [ url |-> cfg.idpUrl \o "/api/vibe/proxy",
    method |-> "POST",
    headers |-> headers,
    body |-> JsonStringify(JObj([ endpoint |-> JStr(endpoint),
                                  method |-> JStr(method),
                                  data |-> Coalesce(body, JNull) ])) ]

\* the argument of fetch in AdminClientImpl.fetch
adminFetch(cfg, endpoint, method, body, headers) ==
  [ url |-> cfg.apiUrl \o endpoint,
    method |-> method,
    headers |-> headers,
    body |-> IF body = JUndef THEN JUndef ELSE JsonStringify(body) ]

NoRequest == [ url |-> "", method |-> "", headers |-> <<>>, body |-> JUndef ]

(***************************************************************************)
(* Inputs of the operations                                                *)
(***************************************************************************)
\* options passed to list()
ListOptionsSet ==
  { <<>>,
    [limit |-> 10, offset |-> 25],
    [limit |-> 2, offset |-> 1, orderBy |-> "name"],
    [filter |-> << [key |-> "status", value |-> JStr("active")],
                   [key |-> "age", value |-> JObj([operator |-> JStr("gt"), value |-> JNum(18)])],
                   [key |-> "gone", value |-> JNull] >>] }

\* the partial record passed to create / update
Partial == JObj([name |-> JStr("x")])

CollectionCalls ==
  { [layer |-> "collection", op |-> "list", name |-> "products", options |-> o]
      : o \in ListOptionsSet }
  \cup { [layer |-> "collection", op |-> "get", name |-> "products", id |-> 1],
         [layer |-> "collection", op |-> "create", name |-> "products", data |-> Partial],
         [layer |-> "collection", op |-> "update", name |-> "products", id |-> 1,
          data |-> Partial],
         [layer |-> "collection", op |-> "delete", name |-> "products", id |-> 1] }

AdminCalls ==
  { [layer |-> "admin", op |-> "roles.list"],
    [layer |-> "admin", op |-> "roles.get", id |-> 1],
    [layer |-> "admin", op |-> "roles.create", data |-> Partial],
    [layer |-> "admin", op |-> "roles.update", id |-> 1, data |-> Partial],
    [layer |-> "admin", op |-> "roles.delete", id |-> 1],
    [layer |-> "admin", op |-> "users.list"],
    [layer |-> "admin", op |-> "users.get", id |-> 1],
    [layer |-> "admin", op |-> "users.getRoles", id |-> 1],
    [layer |-> "admin", op |-> "tenant.getConfig"] }

NoCall == [layer |-> "none", op |-> ""]

\* direct uses of httpRequest with skipAuth set (public endpoints)
SkipAuthCalls ==
  { [layer |-> "http", op |-> "request", endpoint |-> "/v1/health", method |-> "GET",
     skipAuth |-> TRUE],
    [layer |-> "http", op |-> "request", endpoint |-> "/v1/status", method |-> "GET",
     skipAuth |-> TRUE] }

\* HTTP statuses a server answers with
Statuses == {200, 204, 400, 401, 403, 404, 409, 422, 429, 500, 503}

\* response.ok
Ok(status) == status >= 200 /\ status <= 299

\* what a configured supplier returns: a token, the empty string, or null
Tokens == {JStr("tok1"), JStr(""), JNull}

(***************************************************************************)
(* State                                                                   *)
(***************************************************************************)
VARIABLES
  config,       \* the resolved configuration of the client
  pc,           \* where the operation in flight is suspended
  call,         \* the operation in flight and its arguments
  tokenState,   \* "none", "pending", "resolved", "threw", "skipped"
  headers,      \* the headers object of the call
  timer,        \* "none", "armed", "fired", "cleared"
  aborted,      \* controller.signal.aborted
  timestamp,    \* const timestamp of makeProxyRequest
  clock,        \* Math.floor(Date.now() / 1000), counted from the start of the model
  wire,         \* the request handed to fetch by the call
  fetchState,   \* "none", "pending", "cancelled", "settled"
  status,       \* response.status, 0 before a response
  thrown,       \* the exception raised inside the operation, before its own catch
  outcome,      \* how the operation settled
  nextOid,      \* identity of the next object created by `new`
  opsInvoked,   \* operations invoked by the caller so far
  fetchCount,   \* calls of fetch so far
  token,        \* what the access-token supplier returned to the call
  tokenCalls,   \* invocations of the access-token supplier so far
  inflight,     \* concurrent calls: the local variables of each call of an operation
  heap,         \* concurrent calls: the objects those local variables refer to
  pluginPc,     \* next-plugin: "unloaded" until next.config.js was evaluated, then "wrapped"
  written,      \* next-plugin: the call next.config.js makes (its form and the options it passes)
  vibeOptions,  \* next-plugin: the options the withVibe wrapper closed over
  isDev,        \* next-plugin: process.env.NODE_ENV === 'development'
  webpackRuns,  \* next-plugin: invocations of the webpack hook so far
  generations,  \* next-plugin: activations of runTypeGeneration awaiting generateTypes
  watcherInterval, \* dev watcher: the module-level interval handle, 0 for null
  lastSchemaHash,  \* dev watcher: the module-level hash, 0 for null
  intervals,    \* dev watcher: the intervals setInterval scheduled and nobody cleared
  nextInterval, \* dev watcher: the handle the next setInterval returns
  exitHandlers, \* dev watcher: listeners registered with process.on
  syncs,        \* dev watcher: activations of syncTypes suspended at an await
  nextSync,     \* dev watcher: calls of syncTypes so far, plus one
  polls,        \* dev watcher: interval callbacks run so far
  watcherCalls, \* dev watcher: direct calls of startDevWatcher / stopDevWatcher so far
  schema,       \* server: the hash of the current schema
  handled,      \* the hashes seen by polls whose type generation succeeded
  received,     \* what response.text() delivered for the success response
  parsed,       \* how parseResponse settled for the call
  explicit,     \* the argument of createVibeClient, while it is running
  env,          \* process.env
  clients,      \* the client instances created so far: config and collections Map
  nextAccessor, \* identity of the next CollectionImpl created by `new`
  returned      \* the last call of collection(name) and what it returned

\* the state of the client instances and of the process they run in
clientVars == << explicit, env, clients, nextAccessor, returned >>

\* the state of the operation in flight
sequentialVars == << call, tokenState, headers, timer, aborted, timestamp, clock,
                     wire, fetchState, status, thrown, outcome, nextOid, opsInvoked,
                     fetchCount, received, parsed, token, tokenCalls >>

\* the calls that overlap in time
concurrentVars == << inflight, heap >>

\* the build plugin and its dev watcher
watcherVars == << pluginPc, written, vibeOptions, isDev, webpackRuns, generations,
                  watcherInterval, lastSchemaHash, intervals, nextInterval, exitHandlers,
                  syncs, nextSync, polls, watcherCalls, schema, handled >>

\* the state of every operation in flight, and of the plugin
requestVars == << sequentialVars, concurrentVars, watcherVars >>

\* the access token of the call and the use of the supplier
authVars == << token, tokenCalls >>

vars == << config, pc, requestVars, clientVars >>

\* ticks of the clock in one behaviour
MaxTicks == 1

\* response.text() was not called, resolved with a text, or rejected
NotRead == [kind |-> "none"]
TextRead(text) == [kind |-> "text", text |-> text]
ReadFailed == [kind |-> "failed"]

\* calls of operations that overlap in time
MaxCalls == 2
Calls == 1..MaxCalls

\* the supplier has not returned / returned the JS value v
NoToken == [returned |-> FALSE, value |-> JUndef]
TokenReturned(v) == [returned |-> TRUE, value |-> v]

\* the local variables of a call that was not made yet: headers, controller
\* and timer are references into the heap, 0 before the object exists
NoFrame ==
  [ pc |-> "idle", call |-> NoCall, token |-> NoToken, headers |-> 0, controller |-> 0,
    timer |-> 0, timestamp |-> 0, wire |-> NoRequest, status |-> 0, outcome |-> Pending ]

\* no headers object, AbortController or timer was created yet
EmptyHeap == [ headers |-> <<>>, controllers |-> <<>>, timers |-> <<>> ]

\* next.config.js was not evaluated and the dev-watcher module is as loaded
NotWritten == [form |-> "", options |-> <<>>]
PluginNotLoaded ==
  /\ pluginPc = "unloaded"
  /\ written = NotWritten
  /\ vibeOptions = <<>>
  /\ isDev = FALSE
  /\ webpackRuns = 0
  /\ generations = 0
  /\ watcherInterval = 0
  /\ lastSchemaHash = 0
  /\ intervals = {}
  /\ nextInterval = 1
  /\ exitHandlers = 0
  /\ syncs = {}
  /\ nextSync = 1
  /\ polls = 0
  /\ watcherCalls = 0
  /\ schema = 1
  /\ handled = {}

\* no collection(name) call was made yet
NoAccessor == [client |-> 0, name |-> "", accessor |-> 0]

\* no operation is in flight
NoRequestInFlight ==
  /\ call = NoCall
  /\ tokenState = "none"
  /\ headers = <<>>
  /\ timer = "none"
  /\ aborted = FALSE
  /\ timestamp = 0
  /\ clock = 1
  /\ wire = NoRequest
  /\ fetchState = "none"
  /\ status = 0
  /\ thrown = NoError
  /\ outcome = Pending
  /\ nextOid = 1
  /\ opsInvoked = 0
  /\ fetchCount = 0
  /\ received = NotRead
  /\ parsed = Pending
  /\ token = NoToken
  /\ tokenCalls = 0
  /\ inflight = [ i \in Calls |-> NoFrame ]
  /\ heap = EmptyHeap
  /\ PluginNotLoaded

\* a VibeClientImpl as its constructor leaves it
VibeClientImpl(cfg) == [config |-> cfg, collections |-> <<>>]

\* one client instance was created by createVibeClient(c) under process.env = e
Init ==
  /\ \E c \in ClientConfigs, e \in Environments :
       /\ env = e
       /\ config = resolveConfig(c, e)
  /\ explicit = <<>>
  /\ clients = << VibeClientImpl(config) >>
  /\ nextAccessor = 1
  /\ returned = NoAccessor
  /\ pc = "idle"
  /\ NoRequestInFlight

\* the arguments of httpRequest / of the admin fetch wrapper for call c
RequestOf(c) ==
  CASE c.layer = "admin" -> AdminRequest(c)
    [] c.layer = "http" -> [endpoint |-> c.endpoint, method |-> c.method, body |-> JUndef]
    [] OTHER -> CollectionRequest(config, c)

\* the same for the call in flight
Request == RequestOf(call)

\* get and the two admin get operations wrap their body in try / catch
HasNotFoundCatch(c) == c.op \in {"get", "roles.get", "users.get"}

\* what reaches the caller when the request or the unwrapping fails or succeeds
OperationOutcome(c, o) == IF HasNotFoundCatch(c) THEN getCatch(o) ELSE o

\* the rest of a Collection operation once parseResponse returned body
CollectionResult(cfg, c, body) ==
  CASE c.op = "list" -> IF cfg.useProxy THEN listViaQueryResult(body, c.options)
                        ELSE listResult(body, c.options)
    [] c.op = "get" -> getResult(body)
    [] c.op \in {"create", "update"} -> writeResult(body)

\* the rest of an administrative operation once parseResponse returned body
AdminResult(c, body) ==
  IF Nullish(body) THEN
    Rejected(JsTypeError("Cannot read properties of null (reading 'data')"))
  ELSE
    CASE c.op \in {"roles.list", "users.list"} ->
           LET data == OrElse(Prop(body, "data"), JArr(<<>>))
               total == Coalesce(OptProp(Prop(body, "meta"), "total"), JsLength(data))
           IN Resolved(ListResult(data, total, 50, 0))
      [] c.op = "users.getRoles" -> Resolved(OrElse(Prop(body, "data"), JArr(<<>>)))
      [] OTHER -> Resolved(Prop(body, "data"))

\* a finally block that forgets the timer
clearTimeout_forgets(t) == t

\* finally { clearTimeout(timeoutId) }: a timer that has not fired is
\* cancelled; one that has fired is left as it is
clearTimeout(t) == IF t = "armed" THEN "cleared" ELSE t

(***************************************************************************)
(* Actions                                                                 *)
(***************************************************************************)
\* an operation is invoked and runs up to the await of the access token
\* (`await config.getAccessToken()` in httpRequest, `await
\* this.getAccessToken()` in AdminClientImpl.fetch)
Invoke(c) ==
  /\ pc = "idle"
  /\ opsInvoked < MaxOps
  /\ call' = c
  /\ pc' = "token"
  /\ tokenState' = "pending"
  /\ opsInvoked' = opsInvoked + 1
  /\ tokenCalls' = tokenCalls + 1
  /\ UNCHANGED << clientVars, concurrentVars, watcherVars, received, parsed, token, config, thrown, headers, timer,
                  aborted, timestamp, clock, wire, fetchState, status, outcome, nextOid,
                  fetchCount >>

\* the caller invokes list / get / create / update / delete on an accessor
CollectionInvoke == \E c \in CollectionCalls : Invoke(c)

\* the caller invokes an operation of admin.roles / admin.users / admin.tenant
AdminInvoke == \E c \in AdminCalls : Invoke(c)

\* httpRequest / AdminClientImpl.fetch from the creation of the abort controller
\* to the next await, for call c with the headers object h: the timer is armed
\* and the request is built; the next await is the signature in signed proxy
\* mode and fetch otherwise
StartRequest(c, h) ==
  LET r == RequestOf(c)
  IN /\ timer' = "armed"
     /\ aborted' = FALSE
     /\ IF c.layer = "admin" THEN
          /\ headers' = h
          /\ wire' = adminFetch(config, r.endpoint, r.method, r.body, h)
          /\ pc' = "fetch"
          /\ fetchState' = "pending"
          /\ fetchCount' = fetchCount + 1
          /\ UNCHANGED timestamp
        ELSE IF config.useProxy THEN
          /\ timestamp' = clock
          /\ headers' = ProxyClientHeaders(config, h)
          /\ IF config.signingKey # "" THEN
               /\ pc' = "sign"
               /\ UNCHANGED << wire, fetchState, fetchCount >>
             ELSE
               /\ wire' = makeProxyRequest(config, r.endpoint, r.method, r.body, headers')
               /\ pc' = "fetch"
               /\ fetchState' = "pending"
               /\ fetchCount' = fetchCount + 1
        ELSE
          /\ headers' = h
          /\ wire' = makeDirectRequest(config, r.endpoint, r.method, r.body, h)
          /\ pc' = "fetch"
          /\ fetchState' = "pending"
          /\ fetchCount' = fetchCount + 1
          /\ UNCHANGED timestamp

\* httpRequest is called with skipAuth: the supplier is not awaited and the
\* headers object stays as it was created
SkipAuthInvoke ==
  /\ pc = "idle"
  /\ opsInvoked < MaxOps
  /\ \E c \in SkipAuthCalls :
       /\ call' = c
       /\ StartRequest(c, SkipAuthHeaders)
  /\ tokenState' = "skipped"
  /\ opsInvoked' = opsInvoked + 1
  /\ UNCHANGED << clientVars, concurrentVars, watcherVars, received, parsed, authVars,
                  config, thrown, clock, status, outcome, nextOid >>

\* the access-token supplier resolves and the call goes on to its request
GetAccessTokenResolve ==
  /\ pc = "token"
  /\ \E t \in (IF config.getAccessToken = "custom" THEN Tokens ELSE {JNull}) :
       /\ token' = TokenReturned(t)
       /\ StartRequest(call, BaseHeaders(t))
  /\ tokenState' = "resolved"
  /\ UNCHANGED << clientVars, concurrentVars, watcherVars, received, parsed, tokenCalls,
                  config, thrown, call, clock, status, outcome, nextOid, opsInvoked >>

\* the access-token supplier throws or rejects: the await is outside the try
\* block of httpRequest / AdminClientImpl.fetch, so the value thrown leaves
\* the request function as it is
GetAccessTokenThrow ==
  /\ pc = "token"
  /\ config.getAccessToken = "custom"
  /\ \E e \in SupplierErrors :
       /\ thrown' = e
       /\ outcome' = OperationOutcome(call, Rejected(e))
  /\ tokenState' = "threw"
  /\ pc' = "done"
  /\ UNCHANGED << clientVars, concurrentVars, watcherVars, received, parsed, authVars,
                  config, call, headers, timer, aborted, timestamp, clock, wire,
                  fetchState, status, nextOid, opsInvoked, fetchCount >>

\* a catch block that calls fetch again when the error is retryable
HttpRequestThrows_retries(e) ==
  IF isRetryable(fromError(nextOid, e)) THEN
    /\ fetchCount' = fetchCount + 1
    /\ UNCHANGED << thrown, outcome, nextOid, timer, pc, wire >>
  ELSE
    /\ thrown' = fromError(nextOid, e)
    /\ outcome' = OperationOutcome(call, Rejected(thrown'))
    /\ nextOid' = nextOid + 1
    /\ timer' = clearTimeout(timer)
    /\ pc' = "done"
    /\ UNCHANGED << wire, fetchCount >>

\* try { ... } catch (error) { throw VibeError.fromError(error) } finally
\* { clearTimeout(timeoutId) }, then the operation's own handling; fetch is
\* not called again
HttpRequestThrows(e) ==
  /\ thrown' = fromError(nextOid, e)
  /\ outcome' = OperationOutcome(call, Rejected(thrown'))
  /\ nextOid' = nextOid + 1
  /\ timer' = clearTimeout(timer)
  /\ pc' = "done"
  /\ UNCHANGED << wire, fetchCount >>

\* generateHmacSignature resolves: makeProxyRequest adds the two headers and
\* calls fetch (with a signal that may already be aborted)
SignResolve ==
  /\ pc = "sign"
  /\ LET r == Request
     IN /\ headers' = ProxySignedHeaders(config, r.endpoint, r.method, headers, timestamp)
        /\ wire' = makeProxyRequest(config, r.endpoint, r.method, r.body, headers')
  /\ pc' = "fetch"
  /\ fetchState' = IF aborted THEN "cancelled" ELSE "pending"
  /\ fetchCount' = fetchCount + 1
  /\ UNCHANGED << clientVars, concurrentVars, watcherVars, received, parsed, authVars,
                  config, thrown, call, tokenState, timer, aborted, timestamp, clock, status,
                  outcome, nextOid, opsInvoked >>

\* generateHmacSignature throws: no crypto support in the runtime (the
\* VibeError of its catch block) or a signing key that atob rejects
SignThrow ==
  /\ pc = "sign"
  /\ \E e \in { NewVibeError(nextOid, "SERVER_ERROR",
                             "HMAC signing not available - missing crypto support",
                             JUndef, ""),
                PlainError("InvalidCharacterError", "Invalid character") } :
       /\ thrown' = fromError(nextOid + 1, e)
       /\ outcome' = OperationOutcome(call, Rejected(thrown'))
       /\ nextOid' = nextOid + 2
       /\ timer' = clearTimeout(timer)
       /\ pc' = "done"
  /\ UNCHANGED << clientVars, concurrentVars, watcherVars, received, parsed, authVars,
                  config, call, tokenState, headers, aborted, timestamp, clock, wire,
                  fetchState, status, opsInvoked, fetchCount >>

\* the deadline timer fires: controller.abort()
TimerFire ==
  /\ timer = "armed"
  /\ timer' = "fired"
  /\ aborted' = TRUE
  /\ fetchState' = IF fetchState = "pending" THEN "cancelled" ELSE fetchState
  /\ UNCHANGED << clientVars, concurrentVars, watcherVars, received, parsed, authVars,
                  config, thrown, pc, call, tokenState, headers, timestamp, clock, wire, status,
                  outcome, nextOid, opsInvoked, fetchCount >>

\* fetch resolves with a response; a success response leaves httpRequest
\* through finally, and delete is then complete
FetchRespond ==
  /\ pc = "fetch"
  /\ fetchState = "pending"
  /\ \E s \in Statuses :
       /\ status' = s
       /\ IF Ok(s) THEN
            /\ timer' = clearTimeout(timer)
            /\ IF call.op \in {"delete", "roles.delete"}
               THEN pc' = "done" /\ outcome' = Resolved(JUndef)
               ELSE pc' = "body" /\ UNCHANGED outcome
          ELSE
            /\ pc' = "errBody"
            /\ UNCHANGED << timer, outcome >>
  /\ fetchState' = "settled"
  /\ UNCHANGED << clientVars, concurrentVars, watcherVars, received, parsed, authVars,
                  config, thrown, call, tokenState, headers, aborted, timestamp, clock, wire,
                  nextOid, opsInvoked, fetchCount >>

\* fetch rejects with a transport error
FetchThrow ==
  /\ pc = "fetch"
  /\ fetchState = "pending"
  /\ \E e \in TransportErrors : HttpRequestThrows(e)
  /\ fetchState' = "settled"
  /\ UNCHANGED << clientVars, concurrentVars, watcherVars, received, parsed, authVars,
                  config, call, tokenState, headers, aborted, timestamp, clock,
                  status, opsInvoked >>

\* fetch rejects because its signal is aborted
FetchAbort ==
  /\ pc = "fetch"
  /\ fetchState = "cancelled"
  /\ HttpRequestThrows(AbortError)
  /\ UNCHANGED << clientVars, concurrentVars, watcherVars, received, parsed, authVars,
                  config, call, tokenState, headers, aborted, timestamp, clock,
                  fetchState, status, opsInvoked >>

\* `throw await VibeError.fromResponse(response)`: response.json() settles
\* (it rejects once the signal is aborted) and the error goes through catch
ErrorBodyRead ==
  /\ pc = "errBody"
  /\ \E readOk \in BOOLEAN, text \in Texts :
       /\ readOk => ~aborted
       /\ thrown' = fromError(nextOid + 1, fromResponse(nextOid, status, readOk, text))
       /\ outcome' = OperationOutcome(call, Rejected(thrown'))
  /\ nextOid' = nextOid + 2
  /\ timer' = clearTimeout(timer)
  /\ pc' = "done"
  /\ UNCHANGED << clientVars, concurrentVars, watcherVars, received, parsed, authVars,
                  config, call, tokenState, headers, aborted, timestamp, clock, wire,
                  fetchState, status, opsInvoked, fetchCount >>

\* parseResponse reads the body of a success response and the operation
\* unwraps it
BodyRead ==
  /\ pc = "body"
  /\ \E readOk \in BOOLEAN, text \in Texts :
       \* a 204 response has a null body: its text is empty, and the parseResponse
       \* of the HTTP layer returns before reading it
       /\ status = 204 => (readOk /\ text = "")
       /\ LET p == IF call.layer = "admin"
                   THEN adminParseResponse(nextOid, status, readOk, text)
                   ELSE parseResponse(nextOid, status, readOk, text)
              result == IF p.kind = "error" THEN p
                        ELSE IF call.layer = "admin" THEN AdminResult(call, p.value)
                        ELSE CollectionResult(config, call, p.value)
          IN /\ received' = IF call.layer # "admin" /\ status = 204 THEN NotRead
                            ELSE IF readOk THEN TextRead(text) ELSE ReadFailed
             /\ parsed' = p
             /\ thrown' = result.error
             /\ outcome' = OperationOutcome(call, result)
  /\ nextOid' = nextOid + 1
  /\ pc' = "done"
  /\ UNCHANGED << clientVars, concurrentVars, watcherVars, authVars, config, call, tokenState, headers, timer, aborted,
                  timestamp, clock, wire, fetchState, status, opsInvoked, fetchCount >>

\* the caller takes the settled result; the per-call objects are garbage
Return ==
  /\ pc = "done"
  /\ pc' = "idle"
  /\ call' = NoCall
  /\ tokenState' = "none"
  /\ headers' = <<>>
  /\ timer' = "none"
  /\ aborted' = FALSE
  /\ timestamp' = 0
  /\ wire' = NoRequest
  /\ fetchState' = "none"
  /\ status' = 0
  /\ thrown' = NoError
  /\ outcome' = Pending
  /\ nextOid' = 1
  /\ received' = NotRead
  /\ parsed' = Pending
  /\ token' = NoToken
  /\ UNCHANGED << clientVars, concurrentVars, watcherVars, config, clock, opsInvoked, fetchCount, tokenCalls >>

\* a second passes
Tick ==
  /\ clock <= MaxTicks
  /\ clock' = clock + 1
  /\ UNCHANGED << clientVars, concurrentVars, watcherVars, received, parsed, authVars,
                  config, thrown, pc, call, tokenState, headers, timer, aborted, timestamp, wire,
                  fetchState, status, outcome, nextOid, opsInvoked, fetchCount >>

Next ==
  \/ CollectionInvoke
  \/ AdminInvoke
  \/ GetAccessTokenResolve
  \/ GetAccessTokenThrow
  \/ SignResolve
  \/ SignThrow
  \/ TimerFire
  \/ FetchRespond
  \/ FetchThrow
  \/ FetchAbort
  \/ ErrorBodyRead
  \/ BodyRead
  \/ Return
  \/ Tick

Spec == Init /\ [][Next]_vars

TypeOK ==
  /\ pc \in {"new", "idle", "token", "sign", "fetch", "errBody", "body", "done"}
  /\ timer \in {"none", "armed", "fired", "cleared"}
  /\ fetchState \in {"none", "pending", "cancelled", "settled"}
  /\ outcome.kind \in {"pending", "value", "error"}
  /\ opsInvoked \in 0..MaxOps
  /\ fetchCount \in 0..MaxOps
  /\ tokenCalls \in 0..MaxOps
  /\ token.returned \in BOOLEAN

(***************************************************************************)
(* Client instances (client.ts)                                            *)
(***************************************************************************)
\* client instances in one behaviour
MaxClients == 2

\* names passed to collection(name)
CollectionNames == {"products", "orders"}

\* arguments and environments that exercise the choice of the mode
ModeArguments ==
  { <<>>,
    [idpUrl |-> ""],
    [idpUrl |-> "/"],
    [idpUrl |-> "https://idp.test/", clientId |-> "app1"],
    [apiUrl |-> "https://api.test", useProxy |-> TRUE],
    [idpUrl |-> "https://idp.test", useProxy |-> FALSE] }

ModeEnvironments ==
  { <<>>,
    [IDP_URL |-> "https://idp.test/"],
    [IDP_URL |-> "/", NEXT_PUBLIC_IDP_URL |-> "https://idp.test"],
    [NEXT_PUBLIC_IDP_URL |-> "https://idp.test", VIBE_API_URL |-> "https://api.test/"] }

\* no client exists before createVibeClient returned
NoConfig == <<>>

\* createVibeClient(explicit) is about to run in a process with environment env
ClientPending ==
  /\ config = NoConfig
  /\ clients = <<>>
  /\ nextAccessor = 1
  /\ returned = NoAccessor
  /\ pc = "new"
  /\ NoRequestInFlight

InitClient ==
  /\ explicit \in ModeArguments
  /\ env \in ModeEnvironments
  /\ ClientPending

\* createVibeClient(explicit): the configuration is resolved and the client is
\* constructed around it; the argument object is garbage afterwards
CreateVibeClient ==
  /\ pc = "new"
  /\ config' = resolveConfig(explicit, env)
  /\ clients' = << VibeClientImpl(config') >>
  /\ explicit' = <<>>
  /\ pc' = "idle"
  /\ UNCHANGED << env, nextAccessor, returned, requestVars >>

\* createVibeClient() is called again, without arguments: one more instance
CreateAnotherClient ==
  /\ pc = "idle"
  /\ Len(clients) < MaxClients
  /\ clients' = Append(clients, VibeClientImpl(resolveConfig(<<>>, env)))
  /\ UNCHANGED << config, pc, explicit, env, nextAccessor, returned, requestVars >>

\* a VibeClientImpl.collection that never looks into the Map
collection_alwaysNew(cache, name, fresh) ==
  [ accessor |-> fresh, collections |-> (name :> fresh) @@ cache, created |-> TRUE ]

\* VibeClientImpl.collection on the Map cache; fresh is the identity `new` gives
collection(cache, name, fresh) ==
  IF name \in DOMAIN cache
  THEN [ accessor |-> cache[name], collections |-> cache, created |-> FALSE ]
  ELSE [ accessor |-> fresh, collections |-> (name :> fresh) @@ cache, created |-> TRUE ]

\* the application calls collection(name) on one of its clients
Collection ==
  /\ pc = "idle"
  /\ \E i \in 1..Len(clients), name \in CollectionNames :
       LET r == collection(clients[i].collections, name, nextAccessor)
       IN /\ clients' = [clients EXCEPT ![i].collections = r.collections]
          /\ nextAccessor' = IF r.created THEN nextAccessor + 1 ELSE nextAccessor
          /\ returned' = [client |-> i, name |-> name, accessor |-> r.accessor]
  /\ UNCHANGED << config, pc, explicit, env, requestVars >>

NextClient ==
  \/ CreateVibeClient
  \/ CreateAnotherClient
  \/ Collection

SpecClient == InitClient /\ [][NextClient]_vars

(***************************************************************************)
(* Configuration resolution over all arguments and environments            *)
(***************************************************************************)
\* the five settings resolveConfig reads from the argument or the environment
ConfigFields == {"apiUrl", "idpUrl", "clientId", "signingKey", "defaultCollection"}

\* the non-empty value an argument carries for each setting
ArgumentValue ==
  [ apiUrl |-> "https://api.test/", idpUrl |-> "https://idp.test/", clientId |-> "app1",
    signingKey |-> "a2V5", defaultCollection |-> "shop" ]

\* the environment variables of each setting, in the order resolveConfig asks
EnvNames ==
  [ apiUrl |-> << "VIBE_API_URL", "NEXT_PUBLIC_VIBE_API_URL" >>,
    idpUrl |-> << "IDP_URL", "NEXT_PUBLIC_IDP_URL" >>,
    clientId |-> << "VIBE_CLIENT_ID" >>,
    signingKey |-> << "VIBE_HMAC_KEY" >>,
    defaultCollection |-> << "VIBE_COLLECTION" >> ]

\* the value each environment variable has when it is set
EnvValue ==
  [ VIBE_API_URL |-> "https://env-api.test", NEXT_PUBLIC_VIBE_API_URL |-> "https://pub-api.test",
    IDP_URL |-> "https://env-idp.test", NEXT_PUBLIC_IDP_URL |-> "https://pub-idp.test",
    VIBE_CLIENT_ID |-> "envapp", VIBE_HMAC_KEY |-> "ZW52", VIBE_COLLECTION |-> "envshop" ]

\* the literals resolveConfig falls back to
BuiltinDefault ==
  [ apiUrl |-> "", idpUrl |-> "", clientId |-> "", signingKey |-> "",
    defaultCollection |-> "vibe_app" ]

\* every argument: each setting absent, passed empty, or passed with its value
AllArguments ==
  UNION { { [k \in S |-> IF k \in E THEN "" ELSE ArgumentValue[k]] : E \in SUBSET S }
            : S \in SUBSET ConfigFields }

\* every environment: each variable unset or set
AllEnvironments == { [k \in S |-> EnvValue[k]] : S \in SUBSET DOMAIN EnvValue }

InitConfig ==
  /\ explicit \in AllArguments
  /\ env \in AllEnvironments
  /\ ClientPending

NextConfig == CreateVibeClient

SpecConfig == InitConfig /\ [][NextConfig]_vars

(***************************************************************************)
(* list() over a range of options, up to the request it sends              *)
(***************************************************************************)
\* the largest limit and offset passed to list()
MaxLimit == 4
MaxOffset == 9

\* limit and offset, each given or left to its default
PageOptions ==
  {<<>>}
  \cup { [limit |-> l] : l \in 1..MaxLimit }
  \cup { [offset |-> o] : o \in 0..MaxOffset }
  \cup { [limit |-> l, offset |-> o] : l \in 1..MaxLimit, o \in 0..MaxOffset }

\* values of a filter entry: literals, {operator, value} pairs, null, undefined
FilterValues ==
  { JStr("active"), JNum(18),
    JObj([operator |-> JStr("gt"), value |-> JNum(18)]),
    JObj([operator |-> JStr("lt"), value |-> JNum(18)]),
    JObj([operator |-> JStr("gt"), value |-> JNum(21)]),
    JNull, JUndef }

\* filter objects, as the sequence of their entries
ListFilters ==
  {<<>>}
  \cup { << [key |-> k, value |-> v] >> : k \in {"status", "age"}, v \in FilterValues }
  \cup { << [key |-> "status", value |-> v], [key |-> "age", value |-> w] >>
           : v \in FilterValues, w \in FilterValues }

ListCalls ==
  { [layer |-> "collection", op |-> "list", name |-> "products", options |-> o]
      : o \in PageOptions \cup { [filter |-> f] : f \in ListFilters } }

\* the caller invokes list(options) on an accessor
ListInvoke == \E c \in ListCalls : Invoke(c)

NextList ==
  \/ ListInvoke
  \/ GetAccessTokenResolve
  \/ SignResolve

SpecList == Init /\ [][NextList]_vars

(***************************************************************************)
(* Authenticated and unauthenticated calls (index.ts, admin.ts)            *)
(***************************************************************************)
\* calls up to the answer of fetch, with the calls that skip the token
NextAuth ==
  \/ CollectionInvoke
  \/ AdminInvoke
  \/ SkipAuthInvoke
  \/ GetAccessTokenResolve
  \/ GetAccessTokenThrow
  \/ SignResolve
  \/ FetchThrow
  \/ Return

SpecAuth == Init /\ [][NextAuth]_vars

(***************************************************************************)
(* Calls that overlap in time (index.ts, collection.ts)                    *)
(***************************************************************************)
\* the operations the overlapping calls make
ConcurrentCalls == { c \in CollectionCalls : c.op = "get" }

\* what the server answers them with
ConcurrentStatuses == {200, 500}
ConcurrentTexts == {"{\"data\":{\"id\":1}}"}

\* what the supplier returns to them
ConcurrentTokens == {JStr("tok1"), JNull}

\* one module-level object that every call reuses
NewRef_moduleLevel(objects) == 1

\* `{...}`, `new AbortController()`, `setTimeout(...)` inside the function: a
\* new object per call
NewRef(objects) == Len(objects) + 1

\* the heap after the object ref was created or assigned
Store(objects, ref, v) ==
  IF ref > Len(objects) THEN Append(objects, v) ELSE [objects EXCEPT ![ref] = v]

\* controller.signal.aborted for the controller of call i
SignalAborted(i) ==
  inflight[i].controller # 0 /\ heap.controllers[inflight[i].controller]

\* the timer of call i after clearTimeout(timeoutId)
TimersCleared(i) ==
  [heap.timers EXCEPT ![inflight[i].timer] = [@ EXCEPT !.state = clearTimeout(@)]]

\* an operation is invoked while others may be in flight
CallInvoke(i) ==
  /\ inflight[i].pc = "idle"
  /\ \E c \in ConcurrentCalls :
       inflight' = [inflight EXCEPT ![i] = [@ EXCEPT !.pc = "token", !.call = c]]
  /\ UNCHANGED << heap, config, pc, sequentialVars, clientVars, watcherVars >>

\* the supplier resolves for call i: httpRequest creates the headers object,
\* the AbortController and the timer of this call and goes on to the next await
CallTokenResolve(i) ==
  /\ inflight[i].pc = "token"
  /\ \E t \in (IF config.getAccessToken = "custom" THEN ConcurrentTokens ELSE {JNull}) :
       LET r == RequestOf(inflight[i].call)
           hRef == NewRef(heap.headers)
           cRef == NewRef(heap.controllers)
           tRef == NewRef(heap.timers)
           h == IF config.useProxy THEN ProxyClientHeaders(config, BaseHeaders(t))
                ELSE BaseHeaders(t)
           signs == config.useProxy /\ config.signingKey # ""
       IN /\ heap' = [ headers |-> Store(heap.headers, hRef, h),
                       controllers |-> Store(heap.controllers, cRef, FALSE),
                       timers |-> Store(heap.timers, tRef,
                                        [state |-> "armed", controller |-> cRef]) ]
          /\ inflight' =
               [inflight EXCEPT ![i] =
                 [@ EXCEPT !.token = TokenReturned(t),
                           !.headers = hRef, !.controller = cRef, !.timer = tRef,
                           !.timestamp = IF config.useProxy THEN clock ELSE 0,
                           !.pc = IF signs THEN "sign" ELSE "fetch",
                           !.wire =
                             IF signs THEN NoRequest
                             ELSE IF config.useProxy
                             THEN makeProxyRequest(config, r.endpoint, r.method, r.body, h)
                             ELSE makeDirectRequest(config, r.endpoint, r.method, r.body, h)]]
  /\ UNCHANGED << config, pc, sequentialVars, clientVars, watcherVars >>

\* the supplier throws for call i
CallTokenThrow(i) ==
  /\ inflight[i].pc = "token"
  /\ config.getAccessToken = "custom"
  /\ \E e \in {PlainError("Error", "session expired")} :
       inflight' = [inflight EXCEPT ![i] =
                     [@ EXCEPT !.pc = "done",
                               !.outcome = OperationOutcome(inflight[i].call, Rejected(e))]]
  /\ UNCHANGED << heap, config, pc, sequentialVars, clientVars, watcherVars >>

\* the signature of call i is ready: makeProxyRequest adds the two headers to
\* the headers object of the call and calls fetch
CallSignResolve(i) ==
  /\ inflight[i].pc = "sign"
  /\ LET r == RequestOf(inflight[i].call)
         h == ProxySignedHeaders(config, r.endpoint, r.method,
                                 heap.headers[inflight[i].headers], inflight[i].timestamp)
     IN /\ heap' = [heap EXCEPT !.headers[inflight[i].headers] = h]
        /\ inflight' =
             [inflight EXCEPT ![i] =
               [@ EXCEPT !.pc = "fetch",
                         !.wire = makeProxyRequest(config, r.endpoint, r.method, r.body, h)]]
  /\ UNCHANGED << config, pc, sequentialVars, clientVars, watcherVars >>

\* a deadline timer fires: its callback aborts the controller it closed over
CallTimerFire ==
  /\ \E t \in DOMAIN heap.timers :
       /\ heap.timers[t].state = "armed"
       /\ heap' = [heap EXCEPT !.timers[t].state = "fired",
                               !.controllers[heap.timers[t].controller] = TRUE]
  /\ UNCHANGED << inflight, config, pc, sequentialVars, clientVars, watcherVars >>

\* catch and finally of httpRequest for call i, then the operation's own handling
CallThrows(i, e) ==
  /\ inflight' = [inflight EXCEPT ![i] =
                    [@ EXCEPT !.pc = "done",
                              !.outcome = OperationOutcome(inflight[i].call,
                                                           Rejected(fromError(2 * i, e)))]]
  /\ heap' = [heap EXCEPT !.timers = TimersCleared(i)]

\* fetch of call i resolves with a response
CallFetchRespond(i) ==
  /\ inflight[i].pc = "fetch"
  /\ ~SignalAborted(i)
  /\ \E s \in ConcurrentStatuses :
       /\ inflight' = [inflight EXCEPT ![i] =
                         [@ EXCEPT !.status = s,
                                   !.pc = IF Ok(s) THEN "body" ELSE "errBody"]]
       /\ heap' = IF Ok(s) THEN [heap EXCEPT !.timers = TimersCleared(i)] ELSE heap
  /\ UNCHANGED << config, pc, sequentialVars, clientVars, watcherVars >>

\* fetch of call i rejects with a transport error
CallFetchThrow(i) ==
  /\ inflight[i].pc = "fetch"
  /\ ~SignalAborted(i)
  /\ CallThrows(i, PlainError("TypeError", "fetch failed"))
  /\ UNCHANGED << config, pc, sequentialVars, clientVars, watcherVars >>

\* fetch of call i rejects because the signal of the call is aborted
CallFetchAbort(i) ==
  /\ inflight[i].pc = "fetch"
  /\ SignalAborted(i)
  /\ CallThrows(i, AbortError)
  /\ UNCHANGED << config, pc, sequentialVars, clientVars, watcherVars >>

\* `throw await VibeError.fromResponse(response)` of call i
CallErrorBodyRead(i) ==
  /\ inflight[i].pc = "errBody"
  /\ \E readOk \in BOOLEAN, text \in ConcurrentTexts :
       /\ readOk => ~SignalAborted(i)
       /\ CallThrows(i, fromResponse(2 * i - 1, inflight[i].status, readOk, text))
  /\ UNCHANGED << config, pc, sequentialVars, clientVars, watcherVars >>

\* parseResponse and the unwrapping of call i
CallBodyRead(i) ==
  /\ inflight[i].pc = "body"
  /\ \E readOk \in BOOLEAN, text \in ConcurrentTexts :
       LET p == parseResponse(2 * i, inflight[i].status, readOk, text)
           result == IF p.kind = "error" THEN p
                     ELSE CollectionResult(config, inflight[i].call, p.value)
       IN inflight' = [inflight EXCEPT ![i] =
                        [@ EXCEPT !.pc = "done",
                                  !.outcome = OperationOutcome(inflight[i].call, result)]]
  /\ UNCHANGED << heap, config, pc, sequentialVars, clientVars, watcherVars >>

NextConcurrent ==
  \/ \E i \in Calls : CallInvoke(i)
  \/ \E i \in Calls : CallTokenResolve(i)
  \/ \E i \in Calls : CallTokenThrow(i)
  \/ \E i \in Calls : CallSignResolve(i)
  \/ CallTimerFire
  \/ \E i \in Calls : CallFetchRespond(i)
  \/ \E i \in Calls : CallFetchThrow(i)
  \/ \E i \in Calls : CallFetchAbort(i)
  \/ \E i \in Calls : CallErrorBodyRead(i)
  \/ \E i \in Calls : CallBodyRead(i)

SpecConcurrent == Init /\ [][NextConcurrent]_vars

(***************************************************************************)
(* The build plugin and its dev watcher (next-plugin, dev-watcher)         *)
(***************************************************************************)
\* invocations of the webpack hook in one behaviour
MaxWebpack == 2

\* direct calls of startDevWatcher and stopDevWatcher in one behaviour
MaxWatcherCalls == 3

\* interval callbacks in one behaviour
MaxPolls == 2

\* schema versions the server goes through
MaxSchema == 2

\* plugin options a next.config.js passes
PluginOptionsSet ==
  { <<>>,
    [devSync |-> FALSE],
    [devSync |-> TRUE],
    [pollInterval |-> 5000],
    [devSync |-> FALSE, pollInterval |-> 5000] }

\* options.k ?? d
OptionOr(o, k, d) == IF k \in DOMAIN o THEN o[k] ELSE d

\* the two ways a next.config.js hands options to the plugin:
\* withVibe(nextConfig, options) and createWithVibe(options)(nextConfig)
ConfigForms == {"withVibe", "createWithVibe"}

\* everything that is not the plugin
sdkVars == << config, pc, sequentialVars, concurrentVars, clientVars >>

\* the SDK client plays no part: one client with the default configuration
InitWatcher ==
  /\ env = <<>>
  /\ config = resolveConfig(<<>>, <<>>)
  /\ explicit = <<>>
  /\ clients = << VibeClientImpl(config) >>
  /\ nextAccessor = 1
  /\ returned = NoAccessor
  /\ pc = "idle"
  /\ NoRequestInFlight

\* String(Date.now()), the hash fetchSchemaHash falls back to, in sync call id
FallbackHash(id) == 100 + id

\* an activation of syncTypes suspended at `await fetchSchemaHash(...)` /
\* at `await generateTypes(...)`
SyncAtHash(id) == [id |-> id, checkForChanges |-> TRUE, pc |-> "hash", hash |-> 0]
SyncAtGenerate(id, check, h) ==
  [id |-> id, checkForChanges |-> check, pc |-> "generate", hash |-> h]

\* startDevWatcher without the test of watcherInterval
startDevWatcher_noGuard(o) ==
  /\ syncs' = syncs \cup {SyncAtGenerate(nextSync, FALSE, 0)}
  /\ nextSync' = nextSync + 1
  /\ watcherInterval' = nextInterval
  /\ intervals' = intervals \cup
       {[id |-> nextInterval, pollInterval |-> OptionOr(o, "pollInterval", 10000)]}
  /\ nextInterval' = nextInterval + 1
  /\ exitHandlers' = exitHandlers + 3

\* startDevWatcher(options): nothing when a watcher is running; otherwise the
\* initial syncTypes(options) runs up to its await of generateTypes, the
\* interval is scheduled and the three process listeners are registered
startDevWatcher(o) ==
  IF watcherInterval # 0 THEN
    UNCHANGED << syncs, nextSync, watcherInterval, intervals, nextInterval, exitHandlers >>
  ELSE
    /\ syncs' = syncs \cup {SyncAtGenerate(nextSync, FALSE, 0)}
    /\ nextSync' = nextSync + 1
    /\ watcherInterval' = nextInterval
    /\ intervals' = intervals \cup
         {[id |-> nextInterval, pollInterval |-> OptionOr(o, "pollInterval", 10000)]}
    /\ nextInterval' = nextInterval + 1
    /\ exitHandlers' = exitHandlers + 3

\* next.config.js is evaluated: the exported withVibe is createWithVibe()
\* and takes the Next.js configuration only, so options passed to it as a
\* second argument are dropped; createWithVibe(options) closes over them
LoadNextConfig ==
  /\ pluginPc = "unloaded"
  /\ \E form \in ConfigForms, o \in PluginOptionsSet :
       /\ written' = [form |-> form, options |-> o]
       /\ vibeOptions' = IF form = "createWithVibe" THEN o ELSE <<>>
  /\ isDev' \in BOOLEAN
  /\ pluginPc' = "wrapped"
  /\ UNCHANGED << webpackRuns, generations, watcherInterval, lastSchemaHash, intervals,
                  nextInterval, exitHandlers, syncs, nextSync, polls, watcherCalls, schema,
                  handled, sdkVars >>

\* Next.js calls the webpack hook of the wrapped configuration: the server
\* build starts runTypeGeneration, which runs up to its await of generateTypes
Webpack ==
  /\ pluginPc = "wrapped"
  /\ webpackRuns < MaxWebpack
  /\ webpackRuns' = webpackRuns + 1
  /\ \E isServer \in BOOLEAN :
       generations' = IF isServer THEN generations + 1 ELSE generations
  /\ UNCHANGED << pluginPc, written, vibeOptions, isDev, watcherInterval, lastSchemaHash,
                  intervals, nextInterval, exitHandlers, syncs, nextSync, polls,
                  watcherCalls, schema, handled, sdkVars >>

\* what generateTypes does: a successful result, an unsuccessful one, a throw
GenerationResults == {"success", "failure", "throws"}

\* runTypeGeneration resumes after generateTypes: unless it threw, the dev
\* watcher is started in development mode when devSync is not false
RunTypeGenerationResume ==
  /\ generations > 0
  /\ generations' = generations - 1
  /\ \E r \in GenerationResults :
       IF r # "throws" /\ isDev /\ OptionOr(vibeOptions, "devSync", TRUE) # FALSE
       THEN startDevWatcher(vibeOptions)
       ELSE UNCHANGED << syncs, nextSync, watcherInterval, intervals, nextInterval,
                         exitHandlers >>
  /\ UNCHANGED << pluginPc, written, vibeOptions, isDev, webpackRuns, lastSchemaHash,
                  polls, watcherCalls, schema, handled, sdkVars >>

\* the program calls startDevWatcher itself
StartDevWatcher ==
  /\ watcherCalls < MaxWatcherCalls
  /\ watcherCalls' = watcherCalls + 1
  /\ \E o \in PluginOptionsSet : startDevWatcher(o)
  /\ UNCHANGED << pluginPc, written, vibeOptions, isDev, webpackRuns, generations,
                  lastSchemaHash, polls, schema, handled, sdkVars >>

\* stopDevWatcher(): the interval is cleared when there is one
StopDevWatcher ==
  /\ watcherCalls < MaxWatcherCalls
  /\ watcherCalls' = watcherCalls + 1
  /\ IF watcherInterval # 0 THEN
       /\ intervals' = { iv \in intervals : iv.id # watcherInterval }
       /\ watcherInterval' = 0
     ELSE UNCHANGED << intervals, watcherInterval >>
  /\ UNCHANGED << pluginPc, written, vibeOptions, isDev, webpackRuns, generations,
                  lastSchemaHash, nextInterval, exitHandlers, syncs, nextSync, polls,
                  schema, handled, sdkVars >>

\* an interval fires: syncTypes(options, true) runs up to its await of
\* fetchSchemaHash
IntervalTick ==
  /\ polls < MaxPolls
  /\ \E iv \in intervals :
       /\ syncs' = syncs \cup {SyncAtHash(nextSync)}
       /\ nextSync' = nextSync + 1
  /\ polls' = polls + 1
  /\ UNCHANGED << pluginPc, written, vibeOptions, isDev, webpackRuns, generations,
                  watcherInterval, lastSchemaHash, intervals, nextInterval, exitHandlers,
                  watcherCalls, schema, handled, sdkVars >>

\* fetchSchemaHash returns the hash the server reports or, when the request
\* fails, the time; syncTypes returns when it is the last hash seen, and
\* otherwise records it and goes on to generateTypes
FetchSchemaHashReturn ==
  /\ \E a \in syncs :
       /\ a.pc = "hash"
       /\ \E currentHash \in {schema, FallbackHash(a.id)} :
            IF currentHash = lastSchemaHash THEN
              /\ syncs' = syncs \ {a}
              /\ UNCHANGED lastSchemaHash
            ELSE
              /\ lastSchemaHash' = currentHash
              /\ syncs' = (syncs \ {a}) \cup {SyncAtGenerate(a.id, TRUE, currentHash)}
  /\ UNCHANGED << pluginPc, written, vibeOptions, isDev, webpackRuns, generations,
                  watcherInterval, intervals, nextInterval, exitHandlers, nextSync, polls,
                  watcherCalls, schema, handled, sdkVars >>

\* generateTypes settles in syncTypes: the result is logged (and tsconfig
\* touched on success); a failure or a throw changes nothing
GenerateTypesReturn ==
  /\ \E a \in syncs :
       /\ a.pc = "generate"
       /\ syncs' = syncs \ {a}
       /\ \E r \in GenerationResults :
            handled' = IF r = "success" /\ a.checkForChanges
                       THEN handled \cup {a.hash} ELSE handled
  /\ UNCHANGED << pluginPc, written, vibeOptions, isDev, webpackRuns, generations,
                  watcherInterval, lastSchemaHash, intervals, nextInterval, exitHandlers,
                  nextSync, polls, watcherCalls, schema, sdkVars >>

\* the schema on the server changes
SchemaChange ==
  /\ schema < MaxSchema
  /\ schema' = schema + 1
  /\ UNCHANGED << pluginPc, written, vibeOptions, isDev, webpackRuns, generations,
                  watcherInterval, lastSchemaHash, intervals, nextInterval, exitHandlers,
                  syncs, nextSync, polls, watcherCalls, handled, sdkVars >>

\* the watcher driven by the program and by its interval
NextWatcher ==
  \/ StartDevWatcher
  \/ StopDevWatcher
  \/ IntervalTick
  \/ FetchSchemaHashReturn
  \/ GenerateTypesReturn
  \/ SchemaChange

SpecWatcher == InitWatcher /\ [][NextWatcher]_vars

\* the watcher driven by the plugin in a Next.js build
NextPlugin ==
  \/ LoadNextConfig
  \/ Webpack
  \/ RunTypeGenerationResume
  \/ IntervalTick
  \/ FetchSchemaHashReturn
  \/ GenerateTypesReturn

SpecPlugin == InitWatcher /\ [][NextPlugin]_vars

(***************************************************************************)
(* Properties                                                              *)
(***************************************************************************)
Settled == pc = "done"
InCollection == call.layer = "collection"
Sent == wire # NoRequest

\* C1: every failure of a Collection operation that occurs after the access
\* token was resolved reaches the caller as a VibeError whose code is one of
\* the nine kinds; no other exception type escapes.
C1_FailuresAreClassified ==
  (Settled /\ InCollection /\ tokenState = "resolved" /\ outcome.kind = "error")
    => (IsVibeError(outcome.error) /\ outcome.error.code \in VibeErrorCode)

KindOfStatus(s) ==
  IF s = 401 THEN "UNAUTHORIZED"
  ELSE IF s = 403 THEN "FORBIDDEN"
  ELSE IF s = 404 THEN "NOT_FOUND"
  ELSE IF s = 409 THEN "CONFLICT"
  ELSE IF s = 422 THEN "VALIDATION_ERROR"
  ELSE IF s = 429 THEN "RATE_LIMITED"
  ELSE IF s \in 500..599 THEN "SERVER_ERROR"
  ELSE "UNKNOWN_ERROR"

\* C3: for a non-success status s the error raised by the request carries
\* status s and the kind of the fixed table, it is the very object fromResponse
\* built (the first object the call creates), and when an error reaches the
\* caller it is that error.
C3_StatusMapsToKind ==
  (Settled /\ status # 0 /\ ~Ok(status)) =>
    /\ IsVibeError(thrown)
    /\ thrown.status = JNum(status)
    /\ thrown.code = KindOfStatus(status)
    /\ thrown.oid = 1
    /\ outcome.kind = "error" => outcome.error = thrown

C3_ServerErrorSeen ==
  /\ Settled /\ status = 500
  /\ outcome.kind = "error" /\ outcome.error.code = "SERVER_ERROR"
  /\ outcome.error.status = JNum(500)

\* C4: isRetryable is true exactly for NETWORK_ERROR, RATE_LIMITED and
\* SERVER_ERROR and false for the six other kinds, whichever way the
\* VibeError was built.
C4_RetryableKinds ==
  (Settled /\ IsVibeError(thrown)) =>
    /\ thrown.code \in {"NETWORK_ERROR", "RATE_LIMITED", "SERVER_ERROR"} => isRetryable(thrown)
    /\ thrown.code \in {"UNAUTHORIZED", "FORBIDDEN", "NOT_FOUND", "VALIDATION_ERROR",
                        "CONFLICT", "UNKNOWN_ERROR"} => ~isRetryable(thrown)
    /\ thrown.code \in VibeErrorCode

C4_RateLimitedRetryable ==
  /\ Settled /\ status = 429
  /\ thrown.code = "RATE_LIMITED" /\ thrown.message = "slow down"
  /\ isRetryable(thrown)

\* C5: when the deadline timer fires while fetch is pending, the fetch is
\* cancelled (it delivers no response) and the operation fails with a
\* VibeError NETWORK_ERROR "Request timed out", never with another kind and
\* never with a result.
C5_TimeoutIsNetworkError ==
  /\ fetchState = "cancelled" => (status = 0 /\ outcome.kind # "value")
  /\ (Settled /\ fetchState = "cancelled") =>
       /\ outcome.kind = "error"
       /\ IsVibeError(outcome.error)
       /\ outcome.error.code = "NETWORK_ERROR"
       /\ outcome.error.message = "Request timed out"

C5_TimedOut ==
  /\ Settled /\ fetchState = "cancelled" /\ timer = "fired"
  /\ outcome.kind = "error" /\ outcome.error.message = "Request timed out"

\* C6: when the access-token supplier throws or rejects, the operation
\* (Collection or admin) fails with a VibeError of kind UNKNOWN_ERROR; the
\* supplier's raw exception never reaches the caller.
C6_SupplierFailureIsUnknownError ==
  (Settled /\ tokenState = "threw") =>
    /\ outcome.kind = "error"
    /\ IsVibeError(outcome.error)
    /\ outcome.error.code = "UNKNOWN_ERROR"

\* C7: in proxy mode every request of a Collection operation is an HTTP POST
\* to {idpUrl}/api/vibe/proxy with body {endpoint, method, data: body or
\* null}; in direct mode the request goes to {apiUrl}{endpoint} with the
\* logical method and never to the proxy URL.
C7_ProxyFunnel ==
  (InCollection /\ Sent) =>
    LET r == CollectionRequest(config, call)
    IN IF config.useProxy
       THEN /\ wire.url = config.idpUrl \o "/api/vibe/proxy"
            /\ wire.method = "POST"
            /\ wire.body = JsonStringify(JObj([ endpoint |-> JStr(r.endpoint),
                                                method |-> JStr(r.method),
                                                data |-> IF r.body = JUndef THEN JNull
                                                         ELSE r.body ]))
       ELSE /\ wire.url = config.apiUrl \o r.endpoint
            /\ wire.url # config.idpUrl \o "/api/vibe/proxy"
            /\ wire.method = r.method

C7_ProxyDeleteIsPost ==
  /\ InCollection /\ Sent /\ config.useProxy
  /\ call.op = "delete" /\ wire.method = "POST"

XVibeHeaders == {"X-Vibe-Client-Id", "X-Vibe-Timestamp", "X-Vibe-Signature"}

\* C8: a proxy-mode request carries X-Vibe-Client-Id, and X-Vibe-Timestamp and
\* X-Vibe-Signature exactly when a signing key is configured (without a key
\* it is sent unsigned as soon as the token is resolved); the signature is
\* over "{timestamp}|{logicalMethod}|{endpointPath}" with the timestamp of the
\* header; direct-mode requests carry none of the three headers.
C8_ProxyHeaders ==
  /\ (InCollection /\ Sent) =>
       LET r == CollectionRequest(config, call)
           h == wire.headers
       IN IF config.useProxy
          THEN /\ "X-Vibe-Client-Id" \in DOMAIN h
               /\ h["X-Vibe-Client-Id"] = config.clientId
               /\ ("X-Vibe-Timestamp" \in DOMAIN h) <=> (config.signingKey # "")
               /\ ("X-Vibe-Signature" \in DOMAIN h) <=> (config.signingKey # "")
               /\ config.signingKey # "" =>
                    /\ h["X-Vibe-Timestamp"] = ToString(timestamp)
                    /\ h["X-Vibe-Signature"] =
                         "hmac-sha256(" \o config.signingKey \o ";"
                         \o h["X-Vibe-Timestamp"] \o "|" \o r.method \o "|" \o r.endpoint
                         \o ")"
          ELSE DOMAIN h \cap XVibeHeaders = {}
  /\ (InCollection /\ config.useProxy /\ config.signingKey = "" /\ tokenState = "resolved")
       => Sent

C8_SignedAfterTick ==
  /\ InCollection /\ Sent /\ config.useProxy /\ config.signingKey # ""
  /\ call.op = "get"
  /\ "X-Vibe-Signature" \in DOMAIN wire.headers
  /\ clock # timestamp

\* C9: an admin operation on endpoint e with method m produces the wire
\* request httpRequest produces for the same configuration: in proxy mode a
\* POST to {idpUrl}/api/vibe/proxy with the X-Vibe headers, in direct mode the
\* request of makeDirectRequest.
C9_AdminUsesRequestMachinery ==
  (call.layer = "admin" /\ Sent) =>
    LET r == AdminRequest(call)
    IN IF config.useProxy
       THEN /\ wire.url = config.idpUrl \o "/api/vibe/proxy"
            /\ wire.method = "POST"
            /\ "X-Vibe-Client-Id" \in DOMAIN wire.headers
       ELSE wire = makeDirectRequest(config, r.endpoint, r.method, r.body, wire.headers)

\* C10: for every successful list() result whose data is an array,
\* hasMore = (offset + length of data < total), and limit and offset are the
\* requested ones (20 and 0 when not given).
C10_PaginationInvariant ==
  (Settled /\ InCollection /\ call.op = "list" /\ outcome.kind = "value") =>
    LET res == outcome.value.o
        pg == res.pagination.o
        o == call.options
    IN /\ pg.limit = JNum(IF "limit" \in DOMAIN o THEN o.limit ELSE 20)
       /\ pg.offset = JNum(IF "offset" \in DOMAIN o THEN o.offset ELSE 0)
       /\ (res.data.t = "arr" /\ pg.total.t = "num") =>
            pg.hasMore = JBool(pg.offset.n + Len(res.data.a) < pg.total.n)

C10_FilteredPageHasMore ==
  /\ Settled /\ InCollection /\ call.op = "list" /\ outcome.kind = "value"
  /\ config.useProxy
  /\ outcome.value.o.data = JArr(<<Doc1>>)
  /\ outcome.value.o.pagination.o.total = JNum(2)
  /\ outcome.value.o.pagination.o.hasMore = JBool(TRUE)

\* a list() call of an accessor returned a result built from a parsed body
ListReturned ==
  Settled /\ InCollection /\ call.op = "list" /\ parsed.kind = "value"
  /\ outcome.kind = "value"

\* body.k is present: the key exists and holds neither null nor undefined
Present(body, k) == HasKey(body, k) /\ ~Nullish(body.o[k])

\* the list a success body carries: the body itself, else data, items, documents
ListSource(body) ==
  IF IsArray(body) THEN body
  ELSE IF Present(body, "data") THEN body.o.data
  ELSE IF Present(body, "items") THEN body.o.items
  ELSE IF Present(body, "documents") THEN body.o.documents
  ELSE JArr(<<>>)

\* C11: in both modes list() takes its data array from the success body by the
\* precedence: the body itself if it is an array, otherwise the first present
\* of body.data, body.items, body.documents, otherwise the empty list (in proxy
\* mode each element then goes through the document-envelope rule).
C11_ListUnwrapPrecedence ==
  (ListReturned /\ IsArray(ListSource(parsed.value))) =>
    LET src == ListSource(parsed.value)
    IN outcome.value.o.data =
         IF config.useProxy THEN JArr(unwrapDocuments(src.a)) ELSE src

\* C12: in both modes pagination.total of list() is body.meta.total, else
\* body.meta.totalCount, else body.totalCount, and the length of the returned
\* list only when none of the three is present.
C12_TotalPrecedence ==
  ListReturned =>
    LET body == parsed.value
        meta == Prop(body, "meta")
    IN outcome.value.o.pagination.o.total =
         Coalesce(Coalesce(Coalesce(OptProp(meta, "total"), OptProp(meta, "totalCount")),
                           Prop(body, "totalCount")),
                  JsLength(outcome.value.o.data))

\* d is a document envelope whose data is a string or an object
IsEnvelope(d) ==
  HasKey(d, "document_id") /\ HasKey(d, "data") /\ d.o.data.t \in {"str", "obj"}

\* {id: document_id, ...parsedData} as the claim defines parsedData
LogicalDocument(d) ==
  LET data == d.o.data
      parsedData == IF data.t = "obj" THEN data
                    ELSE IF data.s \in DOMAIN JsonTable THEN JsonTable[data.s]
                    ELSE JObj(<<>>)
  IN JObj(Spread(parsedData) @@ [id |-> d.o.document_id])

\* C13: an envelope {document_id, data} unwraps to {id: document_id,
\* ...parsedData}, parsedData being the parsed JSON of a string data and an
\* object data itself; a string that does not parse gives {id: document_id} and
\* the operation still succeeds. Stated for proxy mode, on the document of get /
\* create / update and on every element of a list.
C13_EnvelopeUnwrapped ==
  (Settled /\ InCollection /\ config.useProxy /\ parsed.kind = "value") =>
    LET body == parsed.value
    IN /\ (call.op \in {"get", "create", "update"} /\ HasKey(body, "data")
            /\ IsEnvelope(body.o.data)) =>
              outcome = Resolved(LogicalDocument(body.o.data))
       /\ (call.op = "list" /\ HasKey(body, "documents") /\ ~HasKey(body, "data")
            /\ ~HasKey(body, "items") /\ IsArray(body.o.documents)
            /\ \A i \in 1..Len(body.o.documents.a) : IsEnvelope(body.o.documents.a[i])) =>
              /\ outcome.kind = "value"
              /\ outcome.value.o.data =
                   JArr([ i \in 1..Len(body.o.documents.a) |->
                            LogicalDocument(body.o.documents.a[i]) ])

\* a get in proxy mode was answered with an envelope whose data does not parse
\* and returned {id: 7}
C13_BadEnvelopeIsIdOnly ==
  /\ Settled /\ InCollection /\ config.useProxy /\ call.op = "get"
  /\ parsed = Resolved(JObj([data |-> EnvelopeBad]))
  /\ outcome = Resolved(JObj([id |-> JNum(7)]))

\* C14: the document-envelope rule applies in proxy mode only; in direct mode
\* get / create / update on a success body {data: d} return d unchanged, also
\* when d has a document_id and a data key.
C14_DirectModeKeepsEnvelope ==
  (Settled /\ InCollection /\ ~config.useProxy /\ parsed.kind = "value"
   /\ call.op \in {"get", "create", "update"} /\ HasKey(parsed.value, "data")
   /\ Truthy(parsed.value.o.data)) =>
     outcome = Resolved(parsed.value.o.data)

\* C15: on a success response parseResponse (of the HTTP layer and of the
\* admin client) returns the empty object when the status is 204 or the text is
\* empty, the parsed value when the text is valid JSON, and otherwise fails with
\* a VibeError SERVER_ERROR that carries the response status and reaches the
\* caller of the operation.
C15_ParseResponse ==
  (parsed # Pending) =>
    IF status = 204 \/ received = TextRead("")
    THEN parsed = Resolved(JObj(<<>>))
    ELSE IF received.kind = "text" /\ received.text \in DOMAIN JsonTable
    THEN parsed = Resolved(JsonTable[received.text])
    ELSE /\ parsed.kind = "error"
         /\ IsVibeError(parsed.error)
         /\ parsed.error.code = "SERVER_ERROR"
         /\ parsed.error.status = JNum(status)
         /\ outcome = Rejected(parsed.error)

\* a 200 response whose text is not JSON made a Collection operation fail with
\* SERVER_ERROR and status 200
C15_InvalidJsonSeen ==
  /\ Settled /\ InCollection /\ status = 200
  /\ received = TextRead("not-json")
  /\ outcome.kind = "error" /\ outcome.error.code = "SERVER_ERROR"
  /\ outcome.error.status = JNum(200)

\* every (client, name) pair the caches hold
Cached ==
  { p \in (1..Len(clients)) \X CollectionNames : p[2] \in DOMAIN clients[p[1]].collections }

\* C16: on one client every collection(name) call returns the accessor created
\* by the first call with that name (the cached entry is what is returned and it
\* is never replaced), different names have different accessors, and no
\* accessor belongs to two client instances.
C16_AccessorCache ==
  /\ [](/\ returned # NoAccessor =>
            /\ <<returned.client, returned.name>> \in Cached
            /\ returned.accessor = clients[returned.client].collections[returned.name]
        /\ \A p, q \in Cached :
             p # q => clients[p[1]].collections[p[2]] # clients[q[1]].collections[q[2]])
  /\ [][\A p \in Cached :
          /\ p[1] <= Len(clients')
          /\ p[2] \in DOMAIN clients'[p[1]].collections
          /\ clients'[p[1]].collections[p[2]] = clients[p[1]].collections[p[2]]]_vars

\* three accessors exist on two clients and the last call, a repeated
\* collection("products") on the first client, returned the first accessor
C16_RepeatedCallSameAccessor ==
  /\ Len(clients) = 2
  /\ nextAccessor = 4
  /\ DOMAIN clients[1].collections = {"products", "orders"}
  /\ "products" \in DOMAIN clients[2].collections
  /\ returned = [client |-> 1, name |-> "products", accessor |-> 1]

Precedence(f, args, e) ==
  IF f \in DOMAIN args THEN args[f]
  ELSE LET set == SelectSeq(EnvNames[f], LAMBDA n : n \in DOMAIN e)
       IN IF set # <<>> THEN e[Head(set)] ELSE BuiltinDefault[f]

\* C18: for apiUrl, idpUrl, clientId, signingKey and defaultCollection,
\* resolveConfig returns the explicit argument when one is passed (an empty one
\* included), otherwise the value of the environment variable when set,
\* otherwise the default; the two URLs are compared after removal of a
\* trailing slash.
C18_ExplicitOverEnvironment ==
  [][(pc = "new" /\ pc' = "idle") =>
       \A f \in ConfigFields :
         config'[f] = IF f \in {"apiUrl", "idpUrl"}
                      THEN StripTrailingSlash(Precedence(f, explicit, env))
                      ELSE Precedence(f, explicit, env)]_vars

\* a list() call of an accessor handed its request to fetch
ListSent == Sent /\ InCollection /\ call.op = "list"

\* C19: in proxy mode list({limit, offset}) sends the logical method POST to
\* /v1/collections/{defaultCollection}/tables/{name}/query with pageSize = limit
\* and page = floor(offset / limit) + 1 (limit 20 and offset 0 when not given):
\* page is an integer >= 1 and the page of size limit that contains offset.
C19_PageFromOffset ==
  (ListSent /\ config.useProxy) =>
    LET limit == IF "limit" \in DOMAIN call.options THEN call.options.limit ELSE 20
        offset == IF "offset" \in DOMAIN call.options THEN call.options.offset ELSE 0
        proxyBody == wire.body.of.o
        query == proxyBody.data.o
    IN /\ proxyBody.method = JStr("POST")
       /\ proxyBody.endpoint =
            JStr("/v1/collections/" \o config.defaultCollection \o "/tables/"
                 \o call.name \o "/query")
       /\ query.pageSize = JNum(limit)
       /\ query.page.t = "num"
       /\ query.page.n >= 1
       /\ (query.page.n - 1) * limit <= offset
       /\ offset < query.page.n * limit

\* list({limit: 3, offset: 7}) in proxy mode asked for page 3
C19_OffsetInsidePage ==
  /\ ListSent /\ config.useProxy
  /\ call.options = [limit |-> 3, offset |-> 7]
  /\ wire.body.of.o.data.o.page = JNum(3)
  /\ wire.body.of.o.data.o.pageSize = JNum(3)

\* what a filter asks for: field, operator and value of every entry whose value
\* is neither null nor undefined, a literal meaning equality
FilterMeaning(filter) ==
  LET kept == SelectSeq(filter, LAMBDA e : ~Nullish(e.value))
  IN [ i \in 1..Len(kept) |->
         IF HasKey(kept[i].value, "operator") /\ HasKey(kept[i].value, "value")
         THEN [ field |-> JStr(kept[i].key), operator |-> kept[i].value.o.operator,
                value |-> kept[i].value.o.value ]
         ELSE [ field |-> JStr(kept[i].key), operator |-> JStr("eq"),
                value |-> kept[i].value ] ]

\* C20: every filter entry with a non-null value reaches the backend with its
\* field, operator and value, null and undefined entries are left out: in proxy
\* mode the filter array is one {field, operator, value} per kept entry; in
\* direct mode the query string determines them, that is no filter with another
\* meaning gives the same request URL.
C20_FilterTranslated ==
  (ListSent /\ "filter" \in DOMAIN call.options) =>
    LET f == call.options.filter
    IN IF config.useProxy THEN
         LET query == wire.body.of.o.data
             sent == IF HasKey(query, "filter") THEN query.o.filter.a ELSE <<>>
         IN sent = [ i \in 1..Len(FilterMeaning(f)) |-> JObj(FilterMeaning(f)[i]) ]
       ELSE
         \A g \in ListFilters :
           FilterMeaning(g) # FilterMeaning(f) =>
             wire.url # config.apiUrl \o "/v1/" \o call.name \o "?"
                          \o ListParams([filter |-> g])

\* the operation in flight needs a signature: signed proxy mode, Collection layer
NeedsSignature == InCollection /\ config.useProxy /\ config.signingKey # ""

\* fetch is called at most once per invocation and never more often than
\* operations were invoked
AtMostOneFetch ==
  /\ [](fetchCount <= opsInvoked)
  /\ [][fetchCount' # fetchCount =>
          (fetchCount' = fetchCount + 1 /\ ~Sent /\ Sent')]_vars

\* C21 as stated: at most one network call per invocation, and exactly one
\* once the token supplier has returned, whatever the outcome.
C21_ExactlyOneAfterToken ==
  /\ fetchCount <= opsInvoked
  /\ (Settled /\ tokenState = "resolved") => Sent

\* C21, amended: at most one network call per invocation, none re-issued after
\* a failure, and exactly one once the token supplier has returned unless the
\* call needed a signature and computing it failed.
C21_NoRetry ==
  /\ AtMostOneFetch
  /\ []((Settled /\ tokenState = "resolved" /\ ~Sent) =>
          (NeedsSignature /\ outcome.kind = "error"))
  /\ []((Settled /\ tokenState = "resolved" /\ ~NeedsSignature) => Sent)

\* an operation failed with a retryable error after its single network call
C21_RetryableFailureOnce ==
  /\ Settled /\ Sent
  /\ outcome.kind = "error" /\ IsVibeError(outcome.error) /\ isRetryable(outcome.error)
  /\ fetchCount = opsInvoked

\* C22: when a proxy-mode request needs a signature and the runtime has no
\* cryptographic primitive, the operation fails without sending a request and
\* isRetryable() is false for the error it fails with.
C22_MissingCryptoNotRetryable ==
  (Settled /\ NeedsSignature /\ outcome.kind = "error"
   /\ outcome.error.message = "HMAC signing not available - missing crypto support") =>
    /\ ~Sent
    /\ fetchCount < opsInvoked
    /\ ~isRetryable(outcome.error)


\* a call that goes through the access-token supplier
Authenticated == call.layer \in {"collection", "admin"}
HasBearer == "Authorization" \in DOMAIN wire.headers

\* one invocation of the supplier per authenticated call and none otherwise
SupplierOncePerCall ==
  /\ [][opsInvoked' = opsInvoked + 1 =>
          tokenCalls' = tokenCalls + (IF call'.layer = "http" THEN 0 ELSE 1)]_vars
  /\ [][tokenCalls' # tokenCalls => opsInvoked' = opsInvoked + 1]_vars

\* the supplier has returned before fetch is called, and a Bearer header that
\* is sent carries the value the supplier returned to this call
BearerIsThisCallsToken ==
  (Sent /\ Authenticated) =>
    /\ token.returned
    /\ HasBearer => wire.headers["Authorization"] = "Bearer " \o JsToString(token.value)

\* with skipAuth the supplier is not used and no Authorization header is sent
SkipAuthSendsNoToken ==
  call.layer = "http" => (~token.returned /\ ~HasBearer /\ tokenState = "skipped")

\* C23 as stated: every authenticated call has the supplier's answer before
\* fetch is called, its Authorization header carries exactly that answer, the
\* header is present if and only if the answer is not null, and a call with
\* skipAuth neither uses the supplier nor sends the header.
C23_BearerIffNonNull ==
  /\ BearerIsThisCallsToken
  /\ SkipAuthSendsNoToken
  /\ (Sent /\ Authenticated) => (HasBearer <=> token.value # JNull)

\* C23 (amended): every authenticated call invokes the supplier exactly once,
\* before fetch is called; its Authorization header carries exactly the token
\* returned by that invocation; the header is present if and only if the
\* supplier returned a non-empty token (null and the empty string both give
\* no header); a call with skipAuth neither invokes the supplier nor sends
\* the header.
C23_BearerIffTokenNonEmpty ==
  /\ SupplierOncePerCall
  /\ [](BearerIsThisCallsToken /\ SkipAuthSendsNoToken)
  /\ []((Sent /\ Authenticated) =>
          (HasBearer <=> (token.value # JNull /\ token.value # JStr(""))))

\* the second authenticated call of a behaviour is sent with its own token
C23_SecondCallCarriesItsToken ==
  /\ Sent /\ Authenticated
  /\ opsInvoked = 2 /\ tokenCalls = 2
  /\ token = TokenReturned(JStr("tok1"))
  /\ HasBearer /\ wire.headers["Authorization"] = "Bearer tok1"

\* the call in flight is suspended at one of its awaits
Suspended == pc \in {"token", "sign", "fetch", "errBody", "body"}

\* C25: the deadline timer of a call is started at call entry, before the
\* access token is resolved, and stays in force until the operation has
\* completed: at every suspension point of an invoked operation its timer is
\* armed or has fired, so that the deadline bounds the token supplier, the
\* network call and the read of the response body alike.
C25_TimerCoversEverySuspension ==
  Suspended => timer \in {"armed", "fired"}

\* C26: once a call of httpRequest or of the admin fetch wrapper has settled
\* - with a response, a non-success status, a transport error or a timeout -
\* its deadline timer is no longer pending; a timer is pending only while a
\* call is in flight.
C26_NoTimerLeft ==
  /\ (timer = "armed") => pc \in {"sign", "fetch", "errBody"}
  /\ pc \in {"body", "done", "idle"} => timer # "armed"

\* a call settled with an error while its timer was still running
C26_ClearedOnError ==
  Settled /\ outcome.kind = "error" /\ Sent /\ timer = "cleared"

\* C30: when the success body of get, create or update is itself a document
\* envelope (document_id and data at top level), the operation returns the
\* logical document {id: document_id, ...parsedData}, the value unwrapDocument
\* gives for that envelope, and never the raw data or the data without its id.
C30_TopLevelEnvelopeUnwrapped ==
  (Settled /\ InCollection /\ parsed.kind = "value"
   /\ call.op \in {"get", "create", "update"} /\ IsEnvelope(parsed.value)) =>
     /\ outcome = Resolved(LogicalDocument(parsed.value))
     /\ outcome = Resolved(unwrapDocument(parsed.value))

\* what call j can observe of its own request: its headers object, its
\* abort signal, its timer, the request it sent and its outcome
Observed(j) ==
  [ headers |-> IF inflight[j].headers = 0 THEN <<>> ELSE heap.headers[inflight[j].headers],
    aborted |-> SignalAborted(j),
    timer |-> IF inflight[j].timer = 0 THEN "none" ELSE heap.timers[inflight[j].timer].state,
    wire |-> inflight[j].wire,
    outcome |-> inflight[j].outcome ]

\* the step is the firing of the timer call j created
OwnTimerFires(j) ==
  /\ inflight[j].timer # 0
  /\ heap.timers[inflight[j].timer].state = "armed"
  /\ heap'.timers[inflight[j].timer].state = "fired"

\* C27: calls in flight at the same time are independent: nothing call j
\* observes of its request - headers, abort signal, timer, request sent,
\* outcome - changes in a step that is neither a step of call j nor the firing
\* of its own timer; a request that was sent carries the token returned to its
\* own call, a call times out only when its own timer fired, and executing
\* requests changes neither the resolved configuration nor the accessor cache.
C27_CallsIndependent ==
  /\ [][\A j \in Calls :
          (inflight'[j] = inflight[j] /\ ~OwnTimerFires(j)) => Observed(j)' = Observed(j)]_vars
  /\ [](\A j \in Calls :
          /\ inflight[j].wire # NoRequest =>
               inflight[j].wire.headers = heap.headers[inflight[j].headers]
          /\ inflight[j].wire # NoRequest =>
               IF Truthy(inflight[j].token.value)
               THEN inflight[j].wire.headers["Authorization"]
                      = "Bearer " \o inflight[j].token.value.s
               ELSE "Authorization" \notin DOMAIN inflight[j].wire.headers
          /\ SignalAborted(j) => heap.timers[inflight[j].timer].state = "fired")
  /\ [][config' = config /\ clients' = clients]_vars

\* two calls are awaiting fetch, the timer of the first has fired and aborted
\* it, the second is untouched and carries another token
C27_OneAbortedOtherInFlight ==
  /\ inflight[1].pc = "fetch" /\ inflight[2].pc = "fetch"
  /\ SignalAborted(1) /\ ~SignalAborted(2)
  /\ heap.timers[inflight[2].timer].state = "armed"
  /\ inflight[1].token # inflight[2].token

\* C24: options passed in the documented form withVibe(nextConfig, options)
\* take effect: with devSync: false the dev watcher is never started and no
\* schema poll is scheduled or run, whatever the number of webpack
\* invocations; a pollInterval passed this way is the period of the interval.
C24_DevSyncFalseDisablesPolling ==
  (written.form = "withVibe") =>
    /\ (OptionOr(written.options, "devSync", TRUE) = FALSE) =>
         (watcherInterval = 0 /\ intervals = {} /\ polls = 0 /\ syncs = {})
    /\ \A iv \in intervals :
         iv.pollInterval = OptionOr(written.options, "pollInterval", 10000)

\* a call of startDevWatcher or stopDevWatcher by the program
WatcherCall == watcherCalls' = watcherCalls + 1

\* C28: for any sequence of startDevWatcher and stopDevWatcher calls at most
\* one polling interval is active, and it is the one watcherInterval holds;
\* startDevWatcher while a watcher is running schedules no interval and runs
\* no initial sync; stopDevWatcher leaves no interval active and does nothing
\* when none is running.
C28_AtMostOneInterval ==
  /\ [](Cardinality(intervals) <= 1)
  /\ [](\A iv \in intervals : iv.id = watcherInterval)
  /\ []((watcherInterval = 0) <=> (intervals = {}))
  /\ [][(WatcherCall /\ watcherInterval # 0 /\ watcherInterval' # 0) =>
          UNCHANGED << watcherInterval, intervals, nextInterval, syncs, nextSync >>]_vars
  /\ [][(WatcherCall /\ watcherInterval' = 0) =>
          (intervals' = {} /\ UNCHANGED << syncs, nextSync, nextInterval >>)]_vars
  /\ [][(WatcherCall /\ watcherInterval = 0 /\ watcherInterval' = 0) =>
          UNCHANGED intervals]_vars

\* a watcher was started, stopped and started again: the second interval runs
C28_Restarted ==
  /\ watcherCalls = 3
  /\ nextInterval = 3
  /\ watcherInterval = 2
  /\ Cardinality(intervals) = 1

\* C29: the dev watcher records a schema hash as handled only through a
\* successful type generation: the last hash recorded is one whose generation
\* succeeded or is still running, so that a hash whose generation failed is
\* seen as a change again by the next poll.
C29_HandledOnlyBySuccess ==
  lastSchemaHash # 0 =>
    \/ lastSchemaHash \in handled
    \/ \E a \in syncs : a.pc = "generate" /\ a.hash = lastSchemaHash

====
